---- MODULE Spec2Model ----
(***************************************************************************)
(* A model of MeshToVox's sparse octree (src/src/octree.rs) and of the     *)
(* space-filling engine built on it (fill_space and its helpers), with the *)
(* face emitter of src/src/space_filling.rs.                               *)
(*                                                                         *)
(* An Octree is its `data` vector of u32 words, modelled as a sequence of  *)
(* naturals (offset o of the code is index o + 1 here), and its `depth`.   *)
(* Words are manipulated with the same shifts and masks as the code,       *)
(* written with \div and %.                                                *)
(***************************************************************************)
EXTENDS Integers, Sequences, FiniteSets, TLC

VARIABLES
    data,       \* Octree::data of the filled octree
    calls,      \* history: the insert/store calls made so far, with their results
    phase,      \* position of the run: "build", "frontier", "mesh", "emit", "done"
    fed,        \* number of entries of VoxelList the voxelizer has passed
    empty,      \* Octree::data of empty_tree (E) in fill_space
    current,    \* fill_space: the frontier set being iterated
    todo,       \* fill_space: the elements of `current` the for loop has not visited yet
    next,       \* fill_space: the frontier set being filled
    order,      \* the iteration order of the hash sets in this run of fill_space
    mesh,       \* the face list returned by empty_to_mesh
    triangles,  \* the vertex list returned by fill_space
    run,        \* which run of fill_space on this octree (1 or 2)
    firstMesh,  \* the face list of the first run, kept to compare with the second
    ext,        \* auxiliary: the unfilled voxels 6-connected to voxel (0,0,0)
    gather,     \* magica::_gather: its counter and whether it has ended or panicked
    vox,        \* save_as_magica_voxel: its input nodes, locals and the file written
    load,       \* load_gltf and voxelize: the document, the Mesh, the stores made
    driver,     \* voxelize_mesh: its position, its result and the paths it created
    raster,     \* voxelize_triangle and voxelize_line: their locals and the stores made
    calc        \* a call of a function without side effects: its argument and result

octVars == <<data, calls, phase, fed, empty, current, todo, next, order, mesh,
             triangles, run, firstMesh, ext>>

ioVars == <<gather, vox, load, driver, raster, calc>>

vars == <<data, calls, phase, fed, empty, current, todo, next, order, mesh,
          triangles, run, firstMesh, ext, gather, vox, load, driver,
          raster, calc>>

fillVars == <<phase, fed, empty, current, todo, next, order, mesh, triangles,
              run, firstMesh, ext>>

-----------------------------------------------------------------------------
(* Bounds and parameters *)

\* Octree::depth: the leaf level; the cube has side 2^(Depth+1).
Depth == 2

\* Number of insert/store calls of the octree API specification.
MaxCalls == 3

\* The colours (r, g, b, a) handed to insert/store.
Colors == { <<200, 100, 50, 0>>, <<255, 0, 0, 1>> }

\* Coordinates handed to insert (all inside the cube [0, 2^(Depth+1))).
InsertCoords ==
    { <<1, 1, 1>>, <<1, 0, 1>>, <<3, 1, 1>>, <<6, 6, 6>>, <<7, 7, 7>> }

\* Coordinates handed to insert with a node below the leaf level.
DeepCoords == { <<1, 1, 1>> }

\* Coordinates handed to store (inside and outside its guard).
StoreCoords ==
    { <<6, 6, 6>>, <<0, 0, 0>>, <<7, 3, 3>>, <<-1, 2, 2>> }

\* The voxels the voxelizer hands to store, in this order; a run stores a
\* subsequence of them (at most MaxStores).  The first five enclose voxel
\* (3,4,4) on all sides but +x, (4,4,4) closes it, (4,2,5) stands apart.
VoxelList ==
    << <<2, 4, 4>>, <<3, 5, 4>>, <<3, 3, 4>>, <<3, 4, 5>>, <<3, 4, 3>>,
       <<4, 4, 4>>, <<4, 2, 5>> >>

MaxStores == 6

\* The voxels the voxelizer hands to store in the runs that look at the
\* seed of fill_space: the seed voxel (0,0,0) itself and a voxel on the far
\* boundary (both outside the guard of store), and voxels in the octant of
\* the seed at every level.
SeedList ==
    << <<0, 0, 0>>, <<1, 1, 1>>, <<1, 1, 2>>, <<2, 1, 1>>, <<3, 3, 3>>,
       <<6, 6, 6>>, <<7, 6, 6>> >>

\* Nodes handed to insert at every depth of the octree: coordinates and depth.
AtCoords == { <<0, 0, 0>>, <<1, 1, 1>>, <<5, 2, 7>>, <<4, 4, 4>> }

VoxelColor == <<200, 100, 50, 0>>

\* The requested resolution `size`; fill_space gets max_size = size - 1.
Size == 6

\* std's HashSet iterates in an order fixed by its hasher's random keys.
\* The model draws one of NumOrders orders per run of fill_space: ascending
\* (LinearKey * (2 * order - 1)) mod HashModulus, a multiplicative hash.
NumOrders == 2

HashModulus == 2 ^ 11 + 5

\* save_as_magica_voxel: the leaves of the octree it is called on, as
\* collect_nodes returns them for an octree of depth 8 (cube side 512), in
\* its order (octants ascending, z bit high); a run gets a subsequence of at
\* most MaxLeaves of them.  Three chunks differ on one axis each.
VoxLeaves ==
    << <<1, 1, 1>>, <<255, 2, 3>>, <<300, 2, 3>>, <<2, 300, 255>>, <<3, 2, 300>> >>

MaxLeaves == 2

\* The colours of those leaves; white has palette index 255.
VoxColors == { <<255, 255, 255, 0>>, <<200, 100, 50, 0>> }

\* load_gltf: the material lists of the documents loaded (a colour, an
\* image that decodes, an image that does not), and the number of primitives
\* of the document's mesh (one triangle each).
DocMaterials ==
    { << >>, << "color" >>, << "image" >>, << "color", "image" >>,
      << "image", "color" >>, << "broken" >> }

MaxPrims == 2

\* voxelize_triangle: vertex coordinates are numerators over TriUnit (halves
\* of a voxel), after the transform of voxelize, so all are >= 1 voxel.
TriUnit == 2

\* The triangles handed to voxelize_triangle, each in all orders of its
\* vertices: two longest edges of equal length; a fan whose first line runs
\* through a voxel corner; three small ones (inside one voxel, on three
\* voxels, two vertices equal); one with all vertices equal; a larger one.
BaseTriangles ==
    { << <<2, 2, 3>>, <<6, 2, 3>>, <<4, 6, 3>> >>,
      << <<9, 3, 3>>, <<3, 3, 3>>, <<6, 6, 3>> >>,
      << <<2, 2, 2>>, <<3, 2, 2>>, <<2, 3, 2>> >>,
      << <<3, 3, 3>>, <<4, 3, 3>>, <<3, 4, 3>> >>,
      << <<3, 3, 3>>, <<3, 3, 3>>, <<4, 3, 3>> >>,
      << <<3, 3, 3>>, <<3, 3, 3>>, <<3, 3, 3>> >>,
      << <<2, 2, 2>>, <<8, 2, 2>>, <<2, 8, 5>> >> }

\* Iterations of voxelize_line's loop followed per line.
MaxLineSteps == 12

\* The resolutions `size` handed to voxelize: 1..MaxSize and the values
\* around the program's default 1022 and around 2^20.
MaxSize == 100

LargeSizes == { 1021, 1022, 1023, 1024, 2 ^ 20 - 2, 2 ^ 20 - 1, 2 ^ 20 }

\* The MeshNodes handed to to_vertices: each coordinate is drawn from
\* FaceCoords, with every axis, direction and depth up to the octree's.
FaceCoords == { 0, 3, 4 }

-----------------------------------------------------------------------------
(* octree_header *)

EXISTS_OFFSET == 0
FINAL_OFFSET == 8
TAG_OFFSET == 24
HEADER_TAG == 68
UNINIT_SLOT == 69420420

Bit(word, k) == (word \div (2 ^ k)) % 2

SetBit(word, k) == IF Bit(word, k) = 1 THEN word ELSE word + 2 ^ k

from_color(color) ==
    color[1] + color[2] * 256 + color[3] * 65536 + color[4] * 16777216

to_color(word) ==
    << word % 256, (word \div 256) % 256, (word \div 65536) % 256,
       (word \div 16777216) % 256 >>

\* set_header_tag leaving the tag byte clear.
set_header_tag_skip(header) == header

set_header_tag(header) ==
    IF (header \div (2 ^ TAG_OFFSET)) % 256 = 0
    THEN header + HEADER_TAG * (2 ^ TAG_OFFSET)
    ELSE header   \* only ever applied to headers whose tag byte is clear or already 68

is_header(header) == (header \div (2 ^ TAG_OFFSET)) = HEADER_TAG

get_exists(header, idx) == Bit(header, idx + EXISTS_OFFSET) # 0

set_exists(header, idx) == SetBit(header, idx + EXISTS_OFFSET)

get_final(header, idx) == Bit(header, idx + FINAL_OFFSET) # 0

\* set_final writing the EXISTS byte instead of the FINAL byte.
set_final_exists(header, idx) == SetBit(header, idx + EXISTS_OFFSET)

set_final(header, idx) == SetBit(header, idx + FINAL_OFFSET)

\* get_final(filled_header | empty_header, idx): bit idx + 8 of the OR of two
\* words is the OR of their bits idx + 8.
get_final_either(filled_header, empty_header, idx) ==
    get_final(filled_header, idx) \/ get_final(empty_header, idx)

-----------------------------------------------------------------------------
(* OctreePos, get_octree_idx *)

Pos(coords, depth) == [coords |-> coords, depth |-> depth]

get_octree_idx(cords, depth) ==
    Bit(cords[1], depth) + 2 * Bit(cords[2], depth) + 4 * Bit(cords[3], depth)

get_oct_inverted(cords, i) == get_octree_idx(cords, Depth - i)

\* x & !((1 << n) - 1)
ClearLow(x, n) == x - (x % (2 ^ n))

simplify(pos) ==
    Pos(<< ClearLow(pos.coords[1], Depth - pos.depth),
           ClearLow(pos.coords[2], Depth - pos.depth),
           ClearLow(pos.coords[3], Depth - pos.depth) >>, pos.depth)

\* trailing_zeros() >= max_depth - depth, on each coordinate
is_simple(pos) ==
    \A k \in 1..3 : pos.coords[k] % (2 ^ (Depth - pos.depth)) = 0

\* OCT_PERMS with the y and z bits of the octant index exchanged.
OCT_PERMS_yz(i) == << i % 2, (i \div 4) % 2, (i \div 2) % 2 >>

OCT_PERMS(i) == << i % 2, (i \div 2) % 2, (i \div 4) % 2 >>

-----------------------------------------------------------------------------
(* Octree: new, create_new_oct, insert, store, contains_*, collect_nodes *)

None == [some |-> FALSE, val |-> 0]
Some(v) == [some |-> TRUE, val |-> v]

\* Appends a 9-word chunk; returns the new data and the chunk's offset.
create_new_oct(d, header) ==
    [ data   |-> d \o << set_header_tag(header) >> \o [i \in 1..8 |-> UNINIT_SLOT],
      offset |-> Len(d) ]

OctreeNew == create_new_oct(<< >>, 0).data

\* insert without its test for an occupied target slot: the last writer wins.
SlotTaken_never(header, oct, inserted) == FALSE

\* The test that ends insert at the target slot: the slot is taken on the
\* path that was followed.
SlotTaken(header, oct, inserted) == get_exists(header, oct) /\ inserted

RECURSIVE InsertLoop(_, _, _, _, _, _, _, _)
InsertLoop(d, node, value, lvl, current_pointer, current_oct, current_node, inserted) ==
    IF lvl >= node.depth
    THEN \* after the loop
         LET next_node == current_pointer + 1 + current_oct
             current_header == d[current_pointer + 1]
         IN  IF SlotTaken(current_header, current_oct, inserted)
             THEN [data |-> d, ret |-> None]
             ELSE [ data |-> [d EXCEPT
                                ![current_pointer + 1] =
                                    set_final(set_exists(@, current_oct), current_oct),
                                ![next_node + 1] = from_color(value)],
                    ret |-> Some(next_node) ]
    ELSE LET current_header == d[current_pointer + 1]
             next_oct == get_oct_inverted(node.coords, lvl + 1)
         IN  IF get_exists(current_header, current_oct) /\ inserted
             THEN IF get_final(current_header, current_oct)
                  THEN [data |-> d, ret |-> None]
                  ELSE LET p == d[current_node + 1]
                       IN  InsertLoop(d, node, value, lvl + 1, p, next_oct,
                                      p + 1 + next_oct, inserted)
             ELSE LET c == create_new_oct(d, set_exists(0, next_oct))
                      d1 == [c.data EXCEPT
                               ![current_pointer + 1] = set_exists(@, current_oct),
                               ![current_node + 1] = c.offset]
                  IN  InsertLoop(d1, node, value, lvl + 1, c.offset, next_oct,
                                 c.offset + 1 + next_oct, FALSE)

\* The early return of insert, after allocating a chunk.
InsertRejected_alloc(d) == [data |-> create_new_oct(d, 0).data, ret |-> None]

\* if node.depth > self.depth { return None; }
InsertRejected(d) == [data |-> d, ret |-> None]

insert(d, node, value) ==
    IF node.depth > Depth
    THEN InsertRejected(d)
    ELSE LET oct0 == get_oct_inverted(node.coords, 0)
         IN  InsertLoop(d, node, value, 0, 0, oct0, 1 + oct0, TRUE)

MinElement(v) ==
    CHOOSE m \in {v[1], v[2], v[3]} : \A k \in 1..3 : m <= v[k]

MaxElement(v) ==
    CHOOSE m \in {v[1], v[2], v[3]} : \A k \in 1..3 : m >= v[k]

\* The guard of store on an octree of the given depth: TRUE when the
\* position is dropped.
StoreDropsAt(position, depth) ==
    \/ MinElement(position) < 1
    \/ MaxElement(position) >= (2 ^ (depth + 1)) - 1

\* The guard of store with the lower margin forgotten (< 0 instead of < 1).
StoreDrops_nomargin(position) ==
    \/ MinElement(position) < 0
    \/ MaxElement(position) >= (2 ^ (Depth + 1)) - 1

\* The guard of store: TRUE when the position is dropped.
StoreDrops(position) == StoreDropsAt(position, Depth)

store(d, position, val) ==
    IF StoreDrops(position)
    THEN d
    ELSE insert(d, Pos(position, Depth), val).data

\* contains_point answering true when the descent runs past the node's depth.
RECURSIVE ContainsPointLoop_true(_, _, _, _)
ContainsPointLoop_true(d, node, lvl, pointer) ==
    IF lvl >= node.depth + 1
    THEN TRUE
    ELSE LET current_header == d[pointer + 1]
             current_oct == get_oct_inverted(node.coords, lvl)
         IN  IF ~get_exists(current_header, current_oct) THEN FALSE
             ELSE IF get_final(current_header, current_oct) THEN TRUE
             ELSE ContainsPointLoop_true(d, node, lvl + 1,
                                         d[pointer + 1 + current_oct + 1])

RECURSIVE ContainsPointLoop(_, _, _, _)
ContainsPointLoop(d, node, lvl, pointer) ==
    IF lvl >= node.depth + 1
    THEN FALSE
    ELSE LET current_header == d[pointer + 1]
             current_oct == get_oct_inverted(node.coords, lvl)
         IN  IF ~get_exists(current_header, current_oct) THEN FALSE
             ELSE IF get_final(current_header, current_oct) THEN TRUE
             ELSE ContainsPointLoop(d, node, lvl + 1, d[pointer + 1 + current_oct + 1])

contains_point(d, node) == ContainsPointLoop(d, node, 0, 0)

RECURSIVE ContainsExactLoop(_, _, _, _)
ContainsExactLoop(d, node, lvl, pointer) ==
    IF lvl >= node.depth
    THEN get_final(d[pointer + 1], get_oct_inverted(node.coords, node.depth))
    ELSE LET current_header == d[pointer + 1]
             current_oct == get_oct_inverted(node.coords, lvl)
         IN  IF ~get_exists(current_header, current_oct) THEN FALSE
             ELSE IF get_final(current_header, current_oct) THEN FALSE
             ELSE ContainsExactLoop(d, node, lvl + 1, d[pointer + 1 + current_oct + 1])

contains_exact(d, node) == ContainsExactLoop(d, node, 0, 0)

VAdd(a, b) == << a[1] + b[1], a[2] + b[2], a[3] + b[3] >>
VScale(a, s) == << a[1] * s, a[2] * s, a[3] * s >>

\* collect_recursive: the (OctreePos, u32) pairs it pushes, slot by slot in
\* the order of the loop `for i in 0..8`.
RECURSIVE collect_recursive(_, _, _)
collect_recursive(d, offset, cords) ==
    LET header == d[offset + 1]
        slot(i) ==
            IF ~get_exists(header, i) THEN << >>
            ELSE LET scale == 2 ^ (Depth - cords.depth)
                     new_position == VAdd(cords.coords, VScale(OCT_PERMS(i), scale))
                     off == d[offset + 1 + i + 1]
                 IN  IF get_final(header, i)
                     THEN << << Pos(new_position, cords.depth), off >> >>
                     ELSE collect_recursive(d, off, Pos(new_position, cords.depth + 1))
    IN  slot(0) \o slot(1) \o slot(2) \o slot(3) \o slot(4) \o slot(5) \o slot(6) \o slot(7)

collect_nodes(d) == collect_recursive(d, 0, Pos(<<0, 0, 0>>, 0))

-----------------------------------------------------------------------------
(* The octree API: any sequence of insert and store calls *)

\* The state of the parts of the program an octree run does not enter.
GatherStart == [counter |-> 0, state |-> "run"]

VoxIdle ==
    [ step |-> "idle", nodes |-> << >>, n |-> 0, chunks |-> << >>, palette |-> << >>,
      index |-> 0, left |-> {}, models |-> << >>, scenes |-> << >>, file |-> "none" ]

LoadIdle ==
    [ step |-> "idle", doc |-> [materials |-> << >>, prims |-> << >>],
      materials |-> << >>, triangle_extras |-> << >>, prim |-> 0, tri |-> 0,
      stored |-> << >> ]

DriverIdle ==
    [ step |-> "idle", input |-> "gltf", output |-> "gltf", sparse |-> TRUE,
      folder_exists |-> FALSE, result |-> "none", created |-> {} ]

RasterIdle == [step |-> "idle"]

CalcIdle == [fn |-> "none"]

InitOctree ==
    /\ data = OctreeNew
    /\ calls = << >>
    /\ phase = "build"
    /\ fed = 0
    /\ empty = << >>
    /\ current = {}
    /\ todo = {}
    /\ next = {}
    /\ order = 0
    /\ mesh = << >>
    /\ triangles = << >>
    /\ run = 1
    /\ firstMesh = << >>
    /\ ext = {}

Init ==
    /\ InitOctree
    /\ raster = RasterIdle
    /\ calc = CalcIdle
    /\ gather = GatherStart
    /\ vox = VoxIdle
    /\ load = LoadIdle
    /\ driver = DriverIdle

Insert(coords, color) ==
    /\ Len(calls) < MaxCalls
    /\ LET r == insert(data, Pos(coords, Depth), color)
       IN  /\ data' = r.data
           /\ calls' = Append(calls, [op |-> "insert", pos |-> coords, color |-> color,
                                      ret |-> r.ret, changed |-> (r.data # data)])
    /\ UNCHANGED fillVars
    /\ UNCHANGED ioVars

Store(coords, color) ==
    /\ Len(calls) < MaxCalls
    /\ LET d1 == store(data, coords, color)
       IN  /\ data' = d1
           /\ calls' = Append(calls, [op |-> "store", pos |-> coords, color |-> color,
                                      ret |-> None, changed |-> (d1 # data)])
    /\ UNCHANGED fillVars
    /\ UNCHANGED ioVars

\* insert called with a node one level below the leaf level.
InsertDeep(coords, color) ==
    /\ Len(calls) < MaxCalls
    /\ LET r == insert(data, Pos(coords, Depth + 1), color)
       IN  /\ data' = r.data
           /\ calls' = Append(calls, [op |-> "insert_deep", pos |-> coords,
                                      color |-> color, ret |-> r.ret,
                                      changed |-> (r.data # data)])
    /\ UNCHANGED fillVars
    /\ UNCHANGED ioVars

NextApi ==
    \/ \E coords \in InsertCoords, color \in Colors : Insert(coords, color)
    \/ \E coords \in DeepCoords, color \in Colors : InsertDeep(coords, color)
    \/ \E coords \in StoreCoords, color \in Colors : Store(coords, color)

SpecApi == Init /\ [][NextApi]_vars

-----------------------------------------------------------------------------
(* space_filling.rs: bit_toggle, MeshNode *)

ToggleBit(dim, depth, set) ==
    IF set THEN SetBit(dim, depth)
    ELSE IF Bit(dim, depth) = 1 THEN dim - 2 ^ depth ELSE dim

bit_toggle(cords, depth, oct) ==
    << ToggleBit(cords[1], depth, Bit(oct, 0) # 0),
       ToggleBit(cords[2], depth, Bit(oct, 1) # 0),
       ToggleBit(cords[3], depth, Bit(oct, 2) # 0) >>

MeshNode(cords, dim, positive, depth) ==
    [cords |-> cords, dim |-> dim, positive |-> positive, depth |-> depth]

\* to_square with `opposite` moved along all three axes.
to_square_cube(node, octree_depth) ==
    LET size == 2 ^ (octree_depth - node.depth)
        base == IF node.positive
                THEN [node.cords EXCEPT ![node.dim + 1] = @ + size]
                ELSE node.cords
    IN  << base, << base[1] + size, base[2] + size, base[3] + size >> >>

\* Returns <<base, opposite>>.
to_square(node, octree_depth) ==
    LET size == 2 ^ (octree_depth - node.depth)
        base == IF node.positive
                THEN [node.cords EXCEPT ![node.dim + 1] = @ + size]
                ELSE node.cords
        opposite == << base[1] + (IF node.dim # 0 THEN size ELSE 0),
                       base[2] + (IF node.dim # 1 THEN size ELSE 0),
                       base[3] + (IF node.dim # 2 THEN size ELSE 0) >>
    IN  << base, opposite >>

to_vertices(node, octree_depth) ==
    LET size == 2 ^ (octree_depth - node.depth)
        sq == to_square(node, octree_depth)
        base == sq[1]
        opposite == sq[2]
        corner1 == IF node.dim # 0 THEN [base EXCEPT ![1] = @ + size]
                   ELSE IF node.dim # 1 THEN [base EXCEPT ![2] = @ + size]
                   ELSE base
        corner2 == IF node.dim # 2 THEN [base EXCEPT ![3] = @ + size]
                   ELSE IF node.dim # 1 THEN [base EXCEPT ![2] = @ + size]
                   ELSE base
    IN  << base, corner1, opposite, base, corner2, opposite >>

-----------------------------------------------------------------------------
(* fill_space and its helpers *)

\* generate_mask(dim, positive): the octants whose bit `dim` equals `positive`,
\* in increasing order.
generate_mask(dim, positive) ==
    LET RECURSIVE Gather(_)
        Gather(counter) ==
            IF counter = 8 THEN << >>
            ELSE (IF Bit(counter, dim) = positive THEN << counter >> ELSE << >>)
                 \o Gather(counter + 1)
    IN  Gather(0)

\* ALL_OCTREE_SIDES with the two directions exchanged.
ALL_OCTREE_SIDES_flipped(side) ==
    generate_mask(side % 3, IF side < 3 THEN 1 ELSE 0)

ALL_OCTREE_SIDES(side) ==
    generate_mask(side % 3, IF side < 3 THEN 0 ELSE 1)

create_new_empty_oct(d) ==
    [ data |-> Append(d, set_header_tag(0)), offset |-> Len(d) ]

create_empty_oct(d, depth) ==
    IF Depth = depth THEN create_new_empty_oct(d) ELSE create_new_oct(d, 0)

\* Sets EXISTS on slot `oct` of the chunk at `pointer` of E, allocates the
\* child chunk and stores its offset in the slot.
LinkEmptyChild(E, pointer, oct, depth) ==
    LET c == create_empty_oct([E EXCEPT ![pointer + 1] = set_exists(@, oct)], depth)
    IN  [c.data EXCEPT ![pointer + 1 + oct + 1] = c.offset]

\* The slot marked FINAL only.
MarkExterior_noexists(E, pointer, oct) ==
    [E EXCEPT ![pointer + 1] = set_final(@, oct)]

\* The slot marked EXISTS only.
MarkExterior_nofinal(E, pointer, oct) ==
    [E EXCEPT ![pointer + 1] = set_exists(@, oct)]

MarkExterior(E, pointer, oct) ==
    [E EXCEPT ![pointer + 1] = set_final(set_exists(@, oct), oct)]

\* insert_max_start: returns the new E, the depth of the seed, and whether
\* the descent ran past the leaf level (panic!()).
RECURSIVE InsertMaxStartLoop(_, _, _, _, _, _)
InsertMaxStartLoop(F, E, start, d, empty_pointer, filled_pointer) ==
    IF d > Depth
    THEN [empty |-> E, depth |-> 0, panic |-> TRUE]
    ELSE LET filled_header == F[filled_pointer + 1]
             empty_header == E[empty_pointer + 1]
             oct == get_oct_inverted(start, d)
         IN  IF ~get_exists(filled_header, oct)
             THEN [empty |-> MarkExterior(E, empty_pointer, oct), depth |-> d,
                   panic |-> FALSE]
             ELSE LET E1 == IF ~get_exists(empty_header, oct)
                            THEN LinkEmptyChild(E, empty_pointer, oct, d)
                            ELSE E
                  IN  InsertMaxStartLoop(F, E1, start, d + 1,
                                         E1[empty_pointer + 1 + oct + 1],
                                         F[filled_pointer + 1 + oct + 1])

insert_max_start(F, E, start) == InsertMaxStartLoop(F, E, start, 0, 0, 0)

NoAdjcent == [some |-> FALSE]

\* min_adjcent_depth's descent; `base` is the adjacent point.
RECURSIVE MinAdjcentLoop(_, _, _, _, _, _, _, _, _)
MinAdjcentLoop(F, E, nxt, cord, side, base, d, empty_offset, filled_offset) ==
    IF d >= cord.depth + 1
    THEN [ empty |-> E, next |-> nxt,
           adj |-> [ some |-> TRUE, cords |-> Pos(base, cord.depth + 1),
                     empty_offset |-> empty_offset, filled_offset |-> filled_offset,
                     side |-> side ] ]
    ELSE LET adjacent_oct == get_oct_inverted(base, d)
             empty_header == E[empty_offset + 1]
             filled_header == F[filled_offset + 1]
         IN  IF get_final_either(filled_header, empty_header, adjacent_oct)
             THEN [empty |-> E, next |-> nxt, adj |-> NoAdjcent]
             ELSE IF ~get_exists(filled_header, adjacent_oct)
             THEN [ empty |-> MarkExterior(E, empty_offset, adjacent_oct),
                    next |-> nxt \cup { Pos(base, d) },
                    adj |-> NoAdjcent ]
             ELSE LET E1 == IF ~get_exists(empty_header, adjacent_oct)
                            THEN LinkEmptyChild(E, empty_offset, adjacent_oct, d)
                            ELSE E
                  IN  MinAdjcentLoop(F, E1, nxt, cord, side, base, d + 1,
                                     E1[empty_offset + 1 + adjacent_oct + 1],
                                     F[filled_offset + 1 + adjacent_oct + 1])

min_adjcent_depth(F, E, nxt, cord, side) ==
    LET max_size == 2 ^ (Depth + 1)
        min_octant_size == 2 ^ (Depth - cord.depth)
        dim == side % 3
        base == [cord.coords EXCEPT
                   ![dim + 1] = @ + (IF side < 3 THEN min_octant_size ELSE -1)]
    IN  IF base[dim + 1] >= max_size \/ base[dim + 1] < 0
        THEN [empty |-> E, next |-> nxt, adj |-> NoAdjcent]
        ELSE MinAdjcentLoop(F, E, nxt, cord, side, base, 0, 0, 0)

\* recursive_collect; k indexes the four octants of ALL_OCTREE_SIDES[side],
\* the two headers are the copies read on entry.
RECURSIVE RecursiveCollectLoop(_, _, _, _, _, _, _)
RecursiveCollectLoop(F, E, nxt, adjcent, empty_header, filled_header, k) ==
    IF k > 4
    THEN [empty |-> E, next |-> nxt]
    ELSE LET oct == ALL_OCTREE_SIDES(adjcent.side)[k]
         IN  IF get_final(filled_header, oct)
             THEN RecursiveCollectLoop(F, E, nxt, adjcent, empty_header, filled_header, k + 1)
             ELSE IF get_final(empty_header, oct)
             THEN RecursiveCollectLoop(F, E, nxt, adjcent, empty_header, filled_header, k + 1)
             ELSE LET pos == bit_toggle(adjcent.cords.coords,
                                        Depth - adjcent.cords.depth, oct)
                      octant == Pos(pos, adjcent.cords.depth)
                  IN  IF ~get_exists(filled_header, oct)
                      THEN RecursiveCollectLoop(
                               F, MarkExterior(E, adjcent.empty_offset, oct),
                               nxt \cup { simplify(octant) },
                               adjcent, empty_header, filled_header, k + 1)
                      ELSE LET E1 == IF ~get_exists(empty_header, oct)
                                     THEN LinkEmptyChild(E, adjcent.empty_offset, oct,
                                                         adjcent.cords.depth)
                                     ELSE E
                               new_adjcent ==
                                   [ some |-> TRUE,
                                     cords |-> Pos(pos, adjcent.cords.depth + 1),
                                     filled_offset |-> F[adjcent.filled_offset + 1 + oct + 1],
                                     empty_offset |-> E1[adjcent.empty_offset + 1 + oct + 1],
                                     side |-> adjcent.side ]
                               r == RecursiveCollectLoop(
                                        F, E1, nxt, new_adjcent,
                                        E1[new_adjcent.empty_offset + 1],
                                        F[new_adjcent.filled_offset + 1], 1)
                           IN  RecursiveCollectLoop(F, r.empty, r.next, adjcent,
                                                    empty_header, filled_header, k + 1)

recursive_collect(F, E, nxt, adjcent) ==
    RecursiveCollectLoop(F, E, nxt, adjcent, E[adjcent.empty_offset + 1],
                         F[adjcent.filled_offset + 1], 1)

\* The body of `for cord in &current`: the six sides of one frontier node.
RECURSIVE VisitSides(_, _, _, _, _)
VisitSides(F, E, nxt, cord, i) ==
    IF i = 6 THEN [empty |-> E, next |-> nxt]
    ELSE LET m == min_adjcent_depth(F, E, nxt, cord, i)
         IN  IF ~m.adj.some
             THEN VisitSides(F, m.empty, m.next, cord, i + 1)
             ELSE LET r == recursive_collect(F, m.empty, m.next, m.adj)
                  IN  VisitSides(F, r.empty, r.next, cord, i + 1)

\* The face index i of empty_to_mesh: its axis and its direction.
FaceDim(i) == i \div 2

FacePositive(i) == (i % 2) = 0

\* The step to the adjacent voxel, with the two directions exchanged.
FaceStep_swapped(positive) == IF positive THEN -1 ELSE 1

FaceStep(positive) == IF positive THEN 1 ELSE -1

\* empty_to_mesh: the (MeshNode, colour) pairs of the faces looking at E.
RECURSIVE EmptyToMeshLoop(_, _, _, _)
EmptyToMeshLoop(nodes, E, n, i) ==
    IF n > Len(nodes) THEN << >>
    ELSE IF i = 6 THEN EmptyToMeshLoop(nodes, E, n + 1, 0)
    ELSE LET cord == nodes[n][1]
             color == to_color(nodes[n][2])
             max_size == 2 ^ (Depth + 1)
             dim == FaceDim(i)
             positive == FacePositive(i)
             adjcent == [cord.coords EXCEPT ![dim + 1] = @ + FaceStep(positive)]
         IN  IF adjcent[dim + 1] >= max_size \/ adjcent[dim + 1] < 0
             THEN EmptyToMeshLoop(nodes, E, n, i + 1)
             ELSE IF contains_point(E, Pos(adjcent, Depth))
             THEN << << MeshNode(cord.coords, dim, positive, Depth), color >> >>
                  \o EmptyToMeshLoop(nodes, E, n, i + 1)
             ELSE EmptyToMeshLoop(nodes, E, n, i + 1)

empty_to_mesh(F, E) == EmptyToMeshLoop(collect_nodes(F), E, 1, 0)

\* The closure `mapping` of fill_space.  The position is the exact rational
\* 2 * (x - 1) / max_size - 1 on each axis, kept as numerators over the
\* common denominator max_size (f32 rounding is not modelled).
mapping(x, max_size, color) ==
    [ position |-> [ num |-> << 2 * (x[1] - 1) - max_size,
                                2 * (x[2] - 1) - max_size,
                                2 * (x[3] - 1) - max_size >>,
                     den |-> max_size ],
      color |-> color ]

\* The six vertices fill_space emits for one (MeshNode, colour) pair:
\* a and b are both built from triangles[0..3].
FaceTriangles(node, color, max_size) ==
    LET tri == to_vertices(node, Depth)
        a == << mapping(tri[1], max_size, color), mapping(tri[2], max_size, color),
                mapping(tri[3], max_size, color) >>
        b == << mapping(tri[1], max_size, color), mapping(tri[2], max_size, color),
                mapping(tri[3], max_size, color) >>
    IN  a \o b

\* The output vector: six vertices per pair, in the order of the face list.
EmitTriangles(nodes, max_size) ==
    [ k \in 1..(6 * Len(nodes)) |->
        FaceTriangles(nodes[(k - 1) \div 6 + 1][1], nodes[(k - 1) \div 6 + 1][2],
                      max_size)[((k - 1) % 6) + 1] ]

\* The dense path of save_as_gltf: six MeshNodes per leaf.
DenseNodes(F) ==
    LET nodes == collect_nodes(F)
    IN  { MeshNode(nodes[n][1].coords, i \div 2, (i % 2) = 0, nodes[n][1].depth) :
            n \in 1..Len(nodes), i \in 0..5 }

\* The position of a frontier node in the iteration order `o` of the hash set.
LinearKey(p) ==
    ((p.coords[1] * 2 ^ (Depth + 1) + p.coords[2]) * 2 ^ (Depth + 1) + p.coords[3])
        * (Depth + 2) + p.depth

HashKey(o, p) == (LinearKey(p) * (2 * o - 1)) % HashModulus

IterFirst(S, o) == CHOOSE p \in S : \A q \in S : HashKey(o, p) <= HashKey(o, q)

-----------------------------------------------------------------------------
(* Auxiliary: the true exterior, by flood fill from voxel (0,0,0) *)

Cube == 0..(2 ^ (Depth + 1) - 1)

Neighbours(v) ==
    { w \in { [v EXCEPT ![k] = @ + s] : k \in 1..3, s \in {-1, 1} } :
        \A k \in 1..3 : w[k] \in Cube }

RECURSIVE Flood(_, _, _)
Flood(filled, seen, frontier) ==
    IF frontier = {} THEN seen
    ELSE LET new == (UNION { Neighbours(v) : v \in frontier }) \ (seen \cup filled)
         IN  Flood(filled, seen \cup new, new)

LeafCoords(F) ==
    LET nodes == collect_nodes(F) IN { nodes[n][1].coords : n \in 1..Len(nodes) }

Exterior(F) == Flood(LeafCoords(F), { <<0, 0, 0>> }, { <<0, 0, 0>> })

\* The voxels of the cube a node covers.
NodeVoxels(pos) ==
    LET size == 2 ^ (Depth - pos.depth)
        a == simplify(pos).coords
    IN  { << a[1] + i, a[2] + j, a[3] + k >> : i, j, k \in 0..(size - 1) }

\* The voxels covered by the FINAL slots of E.
CoveredVoxels(E) ==
    LET nodes == collect_nodes(E)
    IN  UNION { NodeVoxels(nodes[n][1]) : n \in 1..Len(nodes) }

-----------------------------------------------------------------------------
(* A run: the voxelizer stores voxels, then fill_space runs (twice) *)

\* voxelize_line's store.store(map_pos, color), for the next voxel stored.
VoxelStore(i) ==
    /\ phase = "build"
    /\ Len(calls) < MaxStores
    /\ i > fed
    /\ LET d1 == store(data, VoxelList[i], VoxelColor)
       IN  /\ data' = d1
           /\ calls' = Append(calls, [op |-> "store", pos |-> VoxelList[i],
                                      color |-> VoxelColor, ret |-> None,
                                      changed |-> (d1 # data)])
    /\ fed' = i
    /\ UNCHANGED <<phase, empty, current, todo, next, order, mesh, triangles,
                   run, firstMesh, ext>>
    /\ UNCHANGED ioVars

\* fill_space up to the first pass of the loop: E is created and seeded.
FillSpaceStart(o) ==
    LET s == insert_max_start(data, OctreeNew, <<0, 0, 0>>)
    IN  /\ order' = o
        /\ empty' = s.empty
        /\ current' = IF s.panic THEN {} ELSE { Pos(<<0, 0, 0>>, s.depth) }
        /\ todo' = current'
        /\ next' = {}
        /\ phase' = IF s.panic THEN "panic" ELSE "frontier"
        /\ mesh' = << >>
        /\ triangles' = << >>

FillSpace(o) ==
    /\ phase = "build"
    /\ FillSpaceStart(o)
    /\ ext' = Exterior(data)
    /\ UNCHANGED <<data, calls, fed, run, firstMesh>>
    /\ UNCHANGED ioVars

\* One iteration of `for cord in &current`.
VisitCord ==
    /\ phase = "frontier"
    /\ todo # {}
    /\ LET cord == IterFirst(todo, order)
           r == VisitSides(data, empty, next, cord, 0)
       IN  /\ empty' = r.empty
           /\ next' = r.next
           /\ todo' = todo \ { cord }
    /\ UNCHANGED <<data, calls, phase, fed, current, order, mesh, triangles,
                   run, firstMesh, ext>>
    /\ UNCHANGED ioVars

\* The end of a pass: swap, clear, and leave the loop on an empty frontier.
EndPass ==
    /\ phase = "frontier"
    /\ todo = {}
    /\ current' = next
    /\ todo' = next
    /\ next' = {}
    /\ phase' = IF next = {} THEN "mesh" ELSE "frontier"
    /\ UNCHANGED <<data, calls, fed, empty, order, mesh, triangles, run,
                   firstMesh, ext>>
    /\ UNCHANGED ioVars

EmptyToMesh ==
    /\ phase = "mesh"
    /\ mesh' = empty_to_mesh(data, empty)
    /\ phase' = "emit"
    /\ UNCHANGED <<data, calls, fed, empty, current, todo, next, order,
                   triangles, run, firstMesh, ext>>
    /\ UNCHANGED ioVars

Emit ==
    /\ phase = "emit"
    /\ triangles' = EmitTriangles(mesh, Size - 1)
    /\ phase' = "done"
    /\ UNCHANGED <<data, calls, fed, empty, current, todo, next, order, mesh,
                   run, firstMesh, ext>>
    /\ UNCHANGED ioVars

\* fill_space is called again on the same octree.
FillSpaceAgain(o) ==
    /\ phase = "done"
    /\ run = 1
    /\ run' = 2
    /\ firstMesh' = mesh
    /\ FillSpaceStart(o)
    /\ UNCHANGED <<data, calls, fed, ext>>
    /\ UNCHANGED ioVars

NextFill ==
    \/ \E i \in 1..Len(VoxelList) : VoxelStore(i)
    \/ \E o \in 1..NumOrders : FillSpace(o)
    \/ VisitCord
    \/ EndPass
    \/ EmptyToMesh
    \/ Emit
    \/ \E o \in 1..NumOrders : FillSpaceAgain(o)

SpecFill == Init /\ [][NextFill]_vars

\* VisitCord as the for loop sees it: the loop moves past its next element.
\* VisitCord's computation is total, so it is enabled exactly when this is,
\* and it is the only step of NextFill that takes an element from `todo`.
LoopAdvance ==
    /\ phase = "frontier"
    /\ todo # {}
    /\ todo' = todo \ { IterFirst(todo, order) }

\* The loop runs on: an iteration that can be taken is taken, and so is the
\* end of a pass.
SpecFillLive == SpecFill /\ WF_todo(LoopAdvance) /\ WF_vars(EndPass)

-----------------------------------------------------------------------------
(* The two trees: the filled octree under inserts at any depth, or under the
   voxelizer's stores followed by fill_space, which builds E *)

\* insert called directly, with a node at any depth up to the leaf level.
\* A run that does so uses the octree as a library: phase "api".
InsertAt(coords, depth, color) ==
    /\ phase \in {"build", "api"}
    /\ fed = 0
    /\ Len(calls) < MaxCalls
    /\ LET r == insert(data, Pos(coords, depth), color)
       IN  /\ data' = r.data
           /\ calls' = Append(calls, [op |-> "insert_at", pos |-> coords,
                                      depth |-> depth, color |-> color,
                                      ret |-> r.ret, changed |-> (r.data # data)])
    /\ phase' = "api"
    /\ UNCHANGED <<fed, empty, current, todo, next, order, mesh, triangles,
                   run, firstMesh, ext>>
    /\ UNCHANGED ioVars

\* voxelize_line's store.store(map_pos, color), for the next voxel of
\* SeedList.
SeedStore(i) ==
    /\ phase = "build"
    /\ Len(calls) < MaxStores
    /\ i > fed
    /\ LET d1 == store(data, SeedList[i], VoxelColor)
       IN  /\ data' = d1
           /\ calls' = Append(calls, [op |-> "store", pos |-> SeedList[i],
                                      color |-> VoxelColor, ret |-> None,
                                      changed |-> (d1 # data)])
    /\ fed' = i
    /\ UNCHANGED <<phase, empty, current, todo, next, order, mesh, triangles,
                   run, firstMesh, ext>>
    /\ UNCHANGED ioVars

NextSeed ==
    \/ \E i \in 1..Len(SeedList) : SeedStore(i)
    \/ \E o \in 1..NumOrders : FillSpace(o)
    \/ VisitCord
    \/ EndPass
    \/ EmptyToMesh
    \/ Emit
    \/ \E o \in 1..NumOrders : FillSpaceAgain(o)

SpecSeed == Init /\ [][NextSeed]_vars

NextTrees ==
    \/ \E coords \in AtCoords, depth \in 0..Depth, color \in Colors :
          InsertAt(coords, depth, color)
    \/ NextFill

SpecTrees == Init /\ [][NextTrees]_vars

-----------------------------------------------------------------------------
(* io.rs: mod magica, the 3:3:2 palette index of a colour *)

\* u8 arithmetic: a left shift keeps the low eight bits.
Shl8(x, n) == (x * 2 ^ n) % 256

Shr8(x, n) == x \div 2 ^ n

\* x | y for bytes whose set bits do not overlap is x + y; encode's three
\* operands occupy bits 0-2, 3-5 and 6-7.
encode_blue5(color) ==
    Shr8(color[1], 5) + Shl8(Shr8(color[2], 5), 3) + Shl8(Shr8(color[3], 5), 6)

encode(color) ==
    Shr8(color[1], 5) + Shl8(Shr8(color[2], 5), 3) + Shl8(Shr8(color[3], 6), 6)

decode(byte) ==
    LET mask3 == 2 ^ 3 - 1
        mask2 == 2 ^ 2 - 1
        r == Shl8(byte % (mask3 + 1), 5)
        g == Shl8(Shr8(byte, 3) % (mask3 + 1), 5)
        b == Shl8(Shr8(byte, 6) % (mask2 + 1), 6)
    IN  << r, g, b >>

U8_MAX == 255

\* One iteration of the loop of magica::_gather.
Gather ==
    /\ gather.state = "run"
    /\ gather' =
          IF encode(decode(gather.counter)) # gather.counter
          THEN [gather EXCEPT !.state = "panic"]
          ELSE IF gather.counter = U8_MAX
          THEN [gather EXCEPT !.state = "ok"]
          ELSE [gather EXCEPT !.counter = @ + 1]
    /\ UNCHANGED <<vox, load, driver, raster, calc>>
    /\ UNCHANGED octVars

NextMagica == Gather

SpecMagica == Init /\ [][NextMagica]_vars

-----------------------------------------------------------------------------
(* io.rs: Octree::save_as_magica_voxel *)

CHUNK_SIZE == 256

\* The (OctreePos, u32) pairs of the leaves picked by S with colours c.
VoxNodes(S, c) ==
    LET idx == SelectSeq([i \in 1..Len(VoxLeaves) |-> i], LAMBDA i : i \in S)
    IN  [ k \in 1..Len(idx) |-> << Pos(VoxLeaves[idx[k]], 8), from_color(c[idx[k]]) >> ]

VoxInputs ==
    { VoxNodes(S, c) :
        S \in { T \in SUBSET (1..Len(VoxLeaves)) : Cardinality(T) <= MaxLeaves },
        c \in [1..Len(VoxLeaves) -> VoxColors] }

\* coords.coords / CHUNK_SIZE and (coords.coords % CHUNK_SIZE).as_u8vec3();
\* coordinates of leaves are not negative, where i32's / and % are \div and %.
ChunkOf(coords) ==
    << coords[1] \div CHUNK_SIZE, coords[2] \div CHUNK_SIZE, coords[3] \div CHUNK_SIZE >>

as_u8vec3(v) == << v[1] % 256, v[2] % 256, v[3] % 256 >>

LocalCoords(coords) ==
    as_u8vec3(<< coords[1] % CHUNK_SIZE, coords[2] % CHUNK_SIZE, coords[3] % CHUNK_SIZE >>)

\* dot_vox::Voxel { x: local.x, y: local.y, z: local.z, i }: no axis swap.
Voxel_noswap(coords, color_idx) ==
    LET local_coords == LocalCoords(coords)
    IN  [x |-> local_coords[1], y |-> local_coords[2], z |-> local_coords[3],
         i |-> color_idx]

\* dot_vox::Voxel { x: local.x, y: local.z, z: local.y, i }
Voxel(coords, color_idx) ==
    LET local_coords == LocalCoords(coords)
    IN  [x |-> local_coords[1], y |-> local_coords[3], z |-> local_coords[2],
         i |-> color_idx]

\* The "_t" attribute: the three numbers format! prints, in its order.
Translation(chunk) ==
    << chunk[1] * CHUNK_SIZE, chunk[3] * CHUNK_SIZE, chunk[2] * CHUNK_SIZE >>

\* The state on entry, with the two scene nodes pushed before the loop.
VoxStart(nodes) ==
    [ step |-> "run", nodes |-> nodes, n |-> 0, chunks |-> << >>, palette |-> << >>,
      index |-> 0, left |-> {}, models |-> << >>,
      scenes |-> << [kind |-> "Transform", t |-> << >>, child |-> 1],
                    [kind |-> "Group", children |-> << >>] >>,
      file |-> "none" ]

\* One iteration of `for (coords, color) in nodes`.
BinNode ==
    /\ vox.step = "run"
    /\ vox.n < Len(vox.nodes)
    /\ LET coords == vox.nodes[vox.n + 1][1]
           color == to_color(vox.nodes[vox.n + 1][2])
           color_idx == encode(color)
           chunk == ChunkOf(coords.coords)
           v == Voxel(coords.coords, color_idx)
       IN  vox' = [vox EXCEPT
                     !.n = @ + 1,
                     !.chunks = IF chunk \in DOMAIN @
                                THEN [@ EXCEPT ![chunk] = Append(@, v)]
                                ELSE @ @@ (chunk :> << v >>),
                     !.left = @ \cup {chunk}]
    /\ UNCHANGED <<gather, load, driver, raster, calc>>
    /\ UNCHANGED octVars

\* One iteration of `for index in 0..u8::MAX`.
PalettePush ==
    /\ vox.step = "run"
    /\ vox.n = Len(vox.nodes)
    /\ vox.index < U8_MAX
    /\ LET color == decode(vox.index)
       IN  vox' = [vox EXCEPT
                     !.palette = Append(@, [r |-> color[1], g |-> color[2],
                                            b |-> color[3], a |-> 255]),
                     !.index = @ + 1]
    /\ UNCHANGED <<gather, load, driver, raster, calc>>
    /\ UNCHANGED octVars

\* One iteration of `for (chunk, voxels) in chunks`, in the map's order.
PushModel(chunk) ==
    /\ vox.step = "run"
    /\ vox.n = Len(vox.nodes)
    /\ vox.index = U8_MAX
    /\ chunk \in vox.left
    /\ LET model_id == Len(vox.models)
           transform_index == Len(vox.scenes)
           shape_index == transform_index + 1
           pushed == vox.scenes
                       \o << [kind |-> "Transform", t |-> Translation(chunk),
                              child |-> shape_index],
                             [kind |-> "Shape", model_id |-> model_id] >>
       IN  vox' = [vox EXCEPT
                     !.models = Append(@, [size |-> << CHUNK_SIZE, CHUNK_SIZE, CHUNK_SIZE >>,
                                           voxels |-> vox.chunks[chunk]]),
                     !.scenes = [pushed EXCEPT
                                   ![2].children = Append(@, transform_index)],
                     !.left = @ \ {chunk}]
    /\ UNCHANGED <<gather, load, driver, raster, calc>>
    /\ UNCHANGED octVars

\* File::create(file_path)? and data.write_vox(&mut file)?
WriteVox(outcome) ==
    /\ vox.step = "run"
    /\ vox.n = Len(vox.nodes)
    /\ vox.index = U8_MAX
    /\ vox.left = {}
    /\ vox' = [vox EXCEPT
                 !.step = IF outcome = "ok" THEN "saved" ELSE "error",
                 !.file = CASE outcome = "create_failed" -> "none"
                            [] outcome = "write_failed" -> "partial"
                            [] OTHER -> "written"]
    /\ UNCHANGED <<gather, load, driver, raster, calc>>
    /\ UNCHANGED octVars

InitVox ==
    /\ InitOctree
    /\ raster = RasterIdle
    /\ calc = CalcIdle
    /\ gather = GatherStart
    /\ load = LoadIdle
    /\ driver = DriverIdle
    /\ vox \in { VoxStart(nodes) : nodes \in VoxInputs }

NextVox ==
    \/ BinNode
    \/ PalettePush
    \/ \E chunk \in vox.left : PushModel(chunk)
    \/ \E outcome \in {"ok", "create_failed", "write_failed"} : WriteVox(outcome)

SpecVox == InitVox /\ [][NextVox]_vars

-----------------------------------------------------------------------------
(* io.rs: VertexExtras, ImageOrColor; gltf2.rs: load_gltf, parse_mesh;
   voxelizer.rs: voxelize *)

\* An f32 is NaN or a number; numbers are kept in halves (val = 1 is 0.5).
F32(val) == [nan |-> FALSE, val |-> val]

F32_NAN == [nan |-> TRUE, val |-> 0]

\* IEEE comparison: NaN differs from every value, itself included.
F32Ne(x, y) == x.nan \/ y.nan \/ x.val # y.val

Vec2_NAN == << F32_NAN, F32_NAN >>

\* Vec2's != : some component differs.
Vec2Ne(a, b) == F32Ne(a[1], b[1]) \/ F32Ne(a[2], b[2])

\* VertexExtras::new(normal, uv, material_idx), the normal left out.
VertexExtrasNew(uv, material_idx) ==
    [ uv |-> IF uv.some THEN uv.val ELSE Vec2_NAN, material_idx |-> material_idx ]

\* VertexExtras::uv: (self.uv != Vec2::NAN).then_some(self.uv)
uv(extras) ==
    IF Vec2Ne(extras.uv, Vec2_NAN) THEN Some(extras.uv) ELSE None

\* The RgbImage of an image material: 3 x 3 pixels.
ImageDim == 3

get_pixel(x, y) == << 50 + 100 * x, 50 + 100 * y, 0 >>

BaseColor == << 200, 100, 50 >>

\* parse_material of one material of the document.
parse_material(mat) ==
    CASE mat = "color" -> [ok |-> TRUE, kind |-> "Color", color |-> BaseColor]
      [] mat = "image" -> [ok |-> TRUE, kind |-> "Image", color |-> << 0, 0, 0 >>]
      [] OTHER -> [ok |-> FALSE, kind |-> "Color", color |-> << 0, 0, 0 >>]

DefaultMaterial == [ok |-> TRUE, kind |-> "Color", color |-> << 255, 255, 255 >>]

\* The primitives a document with n materials can hold: the material index
\* is absent or one of the document's, TEXCOORD_0 is there or not.
Primitives(n) ==
    [ mode : {"Triangles", "Lines"},
      material : { [some |-> FALSE, val |-> 0] } \cup { [some |-> TRUE, val |-> k] : k \in 0..(n - 1) },
      uvs : BOOLEAN,
      uv0 : { << F32(0), F32(1) >> } ]

Documents ==
    UNION { [ materials : {m}, prims : UNION { [1..k -> Primitives(Len(m))] : k \in 1..MaxPrims } ]
              : m \in DocMaterials }

\* load_gltf from `let mut materials` to the push of the default material.
LoadMaterials ==
    /\ load.step = "load"
    /\ LET parsed == [ k \in 1..Len(load.doc.materials) |->
                         parse_material(load.doc.materials[k]) ]
       IN  IF \E k \in 1..Len(parsed) : ~parsed[k].ok
           THEN load' = [load EXCEPT !.step = "error"]
           ELSE load' = [load EXCEPT !.step = "meshes",
                                     !.materials = Append(parsed, DefaultMaterial)]
    /\ UNCHANGED <<gather, vox, driver, raster, calc>>
    /\ UNCHANGED octVars

\* parse_mesh: one iteration of `for primitive in mesh.primitives()`, the
\* primitive holding one triangle.
ParsePrimitive ==
    /\ load.step = "meshes"
    /\ load.prim < Len(load.doc.prims)
    /\ LET primitive == load.doc.prims[load.prim + 1]
           material_idx == IF primitive.material.some THEN primitive.material.val
                           ELSE Len(load.materials)
           get_extras == VertexExtrasNew(IF primitive.uvs THEN Some(primitive.uv0) ELSE None,
                                         material_idx)
       IN  IF primitive.mode # "Triangles"
           THEN load' = [load EXCEPT !.step = "error"]
           ELSE load' = [load EXCEPT
                           !.prim = @ + 1,
                           !.triangle_extras =
                               Append(@, << get_extras, get_extras, get_extras >>)]
    /\ UNCHANGED <<gather, vox, driver, raster, calc>>
    /\ UNCHANGED octVars

\* load_gltf returns the Mesh and voxelize starts.
LoadDone ==
    /\ load.step = "meshes"
    /\ load.prim = Len(load.doc.prims)
    /\ load' = [load EXCEPT !.step = "voxelize"]
    /\ UNCHANGED <<gather, vox, driver, raster, calc>>
    /\ UNCHANGED octVars

\* mesh.materials.get(mat_id as usize).unwrap_or(&mesh.materials[0])
MaterialOf(materials, mat_id) ==
    IF mat_id + 1 \in DOMAIN materials THEN materials[mat_id + 1] ELSE materials[1]

\* `x as u32` of an f32 in halves: NaN is 0, a number is truncated.
AsU32(f) == IF f.nan THEN 0 ELSE f.val \div 2

\* f32 * f32 with the left operand a whole number.
F32Scale(n, f) == IF f.nan THEN F32_NAN ELSE F32(n * f.val)

\* rem_euclid(1.0)
RemEuclid1(f) == IF f.nan THEN F32_NAN ELSE F32(f.val % 2)

\* Shading::get_color at the first voxel of the triangle, where the
\* barycentric weights are (1, 0, 0): 0 * NaN is NaN.
get_color(shading) ==
    IF shading.kind = "Color" THEN shading.color
    ELSE LET anyNan(k) == \E v \in 1..3 : shading.uvs[v][k].nan
             tc(k) == IF anyNan(k) THEN F32_NAN ELSE RemEuclid1(shading.uvs[1][k])
         IN  get_pixel(AsU32(F32Scale(ImageDim - 1, tc(1))),
                       AsU32(F32Scale(ImageDim - 1, tc(2))))

\* One iteration of `for tri in 0..num_tris` of voxelize, with the first
\* store.store(map_pos, color) of the triangle.
VoxelizeTri ==
    /\ load.step = "voxelize"
    /\ load.tri < Len(load.triangle_extras)
    /\ LET extras == load.triangle_extras[load.tri + 1]
           mat_id == extras[1].material_idx
           material == MaterialOf(load.materials, mat_id)
           uvs == [ v \in 1..3 |-> uv(extras[v]) ]
       IN  IF material.kind = "Image" /\ \E v \in 1..3 : ~uvs[v].some
           THEN load' = [load EXCEPT !.step = "panic"]
           ELSE LET shading ==
                        IF material.kind = "Image"
                        THEN [kind |-> "Texture", color |-> << 0, 0, 0 >>,
                              uvs |-> [ v \in 1..3 |-> uvs[v].val ]]
                        ELSE [kind |-> "Color", color |-> material.color,
                              uvs |-> << >>]
                IN  load' = [load EXCEPT
                               !.tri = @ + 1,
                               !.stored = Append(@, [tri |-> load.tri,
                                                     color |-> get_color(shading)])]
    /\ UNCHANGED <<gather, vox, driver, raster, calc>>
    /\ UNCHANGED octVars

\* voxelize returns the tree.
VoxelizeEnd ==
    /\ load.step = "voxelize"
    /\ load.tri = Len(load.triangle_extras)
    /\ load' = [load EXCEPT !.step = "done"]
    /\ UNCHANGED <<gather, vox, driver, raster, calc>>
    /\ UNCHANGED octVars

InitLoad ==
    /\ InitOctree
    /\ raster = RasterIdle
    /\ calc = CalcIdle
    /\ gather = GatherStart
    /\ vox = VoxIdle
    /\ driver = DriverIdle
    /\ load \in { [LoadIdle EXCEPT !.step = "load", !.doc = d] : d \in Documents }

NextLoad ==
    \/ LoadMaterials
    \/ ParsePrimitive
    \/ LoadDone
    \/ VoxelizeTri
    \/ VoxelizeEnd

SpecLoad == InitLoad /\ [][NextLoad]_vars

-----------------------------------------------------------------------------
(* voxelizer.rs: voxelize_triangle and voxelize_line.  Points are triples of
   integer numerators over a common denominator `den`; the arithmetic is
   exact (f32 rounding is not modelled). *)

LINES == << <<1, 2>>, <<0, 2>>, <<0, 1>> >>

VSub(a, b) == << a[1] - b[1], a[2] - b[2], a[3] - b[3] >>

distance_squared(p, q) ==
    LET d == VSub(p, q) IN d[1] * d[1] + d[2] * d[2] + d[3] * d[3]

\* Iterator::max_by over three candidates <<a, b, l>>: a fold that keeps
\* the held element only when it compares Greater, so the later of two
\* equal elements is returned.
max_by(cands) ==
    LET m2 == IF cands[1][3] > cands[2][3] THEN cands[1] ELSE cands[2]
    IN  IF m2[3] > cands[3][3] THEN m2 ELSE cands[3]

\* (ab.ceil() as i32) for ab = sqrt(l) / unit: the least n >= 0 with
\* (n * unit)^2 >= l.
CeilSqrt(l, unit) ==
    CHOOSE n \in 0..(l + 1) :
        /\ (n * unit) * (n * unit) >= l
        /\ \A m \in 0..(n - 1) : (m * unit) * (m * unit) < l

Triangles ==
    { << t[p[1]], t[p[2]], t[p[3]] >> :
        t \in BaseTriangles,
        p \in { q \in [1..3 -> 1..3] : { q[1], q[2], q[3] } = 1..3 } }

Zero3 == <<0, 0, 0>>

RasterStart(tri_pos) ==
    [ step |-> "pick", tri_pos |-> tri_pos, a |-> 0, b |-> 0, c |-> 0,
      num_steps |-> 0, i |-> 0, den |-> TriUnit, p1 |-> Zero3, p2 |-> Zero3,
      map_pos |-> Zero3, end |-> Zero3, t_max |-> Zero3, steps |-> 0,
      lines |-> 0, stored |-> {} ]

RasterStep(next_raster) ==
    /\ raster' = next_raster
    /\ UNCHANGED <<gather, vox, load, driver, calc>>
    /\ UNCHANGED octVars

\* voxelize_triangle up to its for loop: the longest edge (a, b), the
\* vertex c off it, and num_steps.
PickEdge ==
    /\ raster.step = "pick"
    /\ LET t == raster.tri_pos
           cands == [ k \in 1..3 |->
                        << LINES[k][1], LINES[k][2],
                           distance_squared(t[LINES[k][1] + 1], t[LINES[k][2] + 1]) >> ]
           m == max_by(cands)
           n == CeilSqrt(m[3], TriUnit)
       IN  RasterStep([raster EXCEPT !.step = "fan", !.a = m[1], !.b = m[2],
                                     !.c = 3 - m[1] - m[2],
                                     !.num_steps = IF n > 1 THEN n ELSE 1,
                                     !.i = 0])

\* ray_dir.signum(): the direction component of an axis the line does not
\* move on is +0.0, whose signum is 1.
Signum(x) == IF x >= 0 THEN 1 ELSE -1

Abs(x) == IF x >= 0 THEN x ELSE -x

\* p.floor().as_ivec3() and p.as_ivec3() on coordinates >= 0.
FloorDiv(p, den) == << p[1] \div den, p[2] \div den, p[3] \div den >>

\* t_max on entry: the distance on each axis from ray_pos to the next voxel
\* boundary, as a numerator over |p2 - p1| on that axis (the length of
\* p2 - p1 is a common factor); the value on an axis the line does not move
\* on is +inf, and its entry is not read.
TMaxStart(p1, p2, den) ==
    LET map == FloorDiv(p1, den)
    IN  [ k \in 1..3 |->
            IF p2[k] > p1[k] THEN (map[k] + 1) * den - p1[k]
            ELSE IF p2[k] < p1[k] THEN p1[k] - map[k] * den
            ELSE 0 ]

\* t_max[i] < t_max[j]
TLess(t_max, delta, i, j) ==
    IF delta[i] = 0 THEN FALSE
    ELSE IF delta[j] = 0 THEN TRUE
    ELSE t_max[i] * Abs(delta[j]) < t_max[j] * Abs(delta[i])

\* Vec3::min_position: the index of the first minimum element.
min_position(t_max, delta) ==
    LET i1 == IF TLess(t_max, delta, 2, 1) THEN 2 ELSE 1
    IN  IF TLess(t_max, delta, 3, i1) THEN 3 ELSE i1

\* One turn of the for loop of voxelize_triangle, with voxelize_line up to
\* its loop: the early return on p1 == p2, else the locals of the DDA.
FanLine ==
    /\ raster.step = "fan"
    /\ raster.i <= raster.num_steps
    /\ LET t == raster.tri_pos
           n == raster.num_steps
           den == TriUnit * n
           a == t[raster.a + 1]
           b == t[raster.b + 1]
           p1 == [ k \in 1..3 |-> a[k] * n + (b[k] - a[k]) * raster.i ]
           p2 == [ k \in 1..3 |-> t[raster.c + 1][k] * n ]
       IN  IF p1 = p2
           THEN RasterStep([raster EXCEPT !.i = @ + 1, !.lines = @ + 1])
           ELSE RasterStep([raster EXCEPT !.step = "line", !.den = den,
                                          !.p1 = p1, !.p2 = p2,
                                          !.map_pos = FloorDiv(p1, den),
                                          !.end = FloorDiv(p2, den),
                                          !.t_max = TMaxStart(p1, p2, den),
                                          !.steps = 0, !.lines = @ + 1])

\* One iteration of the loop of voxelize_line.
LineStep ==
    /\ raster.step = "line"
    /\ raster.steps < MaxLineSteps
    /\ LET delta == VSub(raster.p2, raster.p1)
           smallest == min_position(raster.t_max, delta)
           stored == raster.stored \cup { raster.map_pos }
       IN  IF raster.map_pos = raster.end
           THEN RasterStep([raster EXCEPT !.step = "fan", !.i = @ + 1,
                                          !.stored = stored])
           ELSE RasterStep([raster EXCEPT
                              !.stored = stored,
                              !.steps = @ + 1,
                              !.t_max[smallest] = @ + raster.den,
                              !.map_pos[smallest] = @ + Signum(delta[smallest])])

\* The for loop of voxelize_triangle has ended.
FanEnd ==
    /\ raster.step = "fan"
    /\ raster.i > raster.num_steps
    /\ RasterStep([raster EXCEPT !.step = "done"])

InitRaster ==
    /\ InitOctree
    /\ gather = GatherStart
    /\ vox = VoxIdle
    /\ load = LoadIdle
    /\ driver = DriverIdle
    /\ calc = CalcIdle
    /\ raster \in { RasterStart(tri_pos) : tri_pos \in Triangles }

NextRaster ==
    \/ PickEdge
    \/ FanLine
    \/ LineStep
    \/ FanEnd

SpecRaster == InitRaster /\ [][NextRaster]_vars

-----------------------------------------------------------------------------
(* space_filling.rs: calls of MeshNode::to_vertices *)

FaceNodes ==
    { MeshNode(<<x, y, z>>, dim, positive, depth) :
        x \in FaceCoords, y \in FaceCoords, z \in FaceCoords,
        dim \in 0..2, positive \in BOOLEAN, depth \in 0..Depth }

CalcStep(next_calc) ==
    /\ calc' = next_calc
    /\ UNCHANGED <<gather, vox, load, driver, raster>>
    /\ UNCHANGED octVars

\* node.to_vertices(self.depth as u8)
ToVertices ==
    /\ calc.fn = "to_vertices"
    /\ ~calc.returned
    /\ CalcStep([calc EXCEPT !.returned = TRUE,
                             !.ret = to_vertices(calc.node, Depth)])

InitFaces ==
    /\ InitOctree
    /\ gather = GatherStart
    /\ vox = VoxIdle
    /\ load = LoadIdle
    /\ driver = DriverIdle
    /\ raster = RasterIdle
    /\ calc \in { [fn |-> "to_vertices", node |-> node, returned |-> FALSE, ret |-> << >>] :
                    node \in FaceNodes }

NextFaces == ToVertices

SpecFaces == InitFaces /\ [][NextFaces]_vars

-----------------------------------------------------------------------------
(* voxelizer.rs: voxelize, the depth of the octree it creates for a
   resolution, and the store guard on the voxels it passes *)

\* u32::leading_zeros, for 0 < x < 2^30.
leading_zeros(x) ==
    32 - (CHOOSE n \in 1..30 : x < 2 ^ n /\ x >= 2 ^ (n - 1))

\* The depth taken from size, not size + 1.
DepthOf_nogap(size) == 31 - leading_zeros(size)

\* let depth = 31 - (size + 1).leading_zeros();
DepthOf(size) == 31 - leading_zeros(size + 1)

Sizes == (1..MaxSize) \cup LargeSizes

\* The transform of voxelize maps the mesh into [1, size] on each axis; the
\* voxel coordinates tried are the two ends and the middle.
SizeCoords(size) == { 1, (size + 1) \div 2, size }

\* voxelize up to Octree::new(depth)
DeriveDepth ==
    /\ calc.fn = "voxelize"
    /\ calc.depth = -1
    /\ CalcStep([calc EXCEPT !.depth = DepthOf(calc.size)])

\* A call store.store(map_pos, color) on the octree of that depth: the
\* position passes the guard or is dropped.
StoreVoxel(position) ==
    /\ calc.fn = "voxelize"
    /\ calc.depth >= 0
    /\ ~calc.stored
    /\ CalcStep([calc EXCEPT !.stored = TRUE, !.position = position,
                             !.dropped = StoreDropsAt(position, calc.depth)])

InitSize ==
    /\ InitOctree
    /\ gather = GatherStart
    /\ vox = VoxIdle
    /\ load = LoadIdle
    /\ driver = DriverIdle
    /\ raster = RasterIdle
    /\ calc \in { [fn |-> "voxelize", size |-> size, depth |-> -1, stored |-> FALSE,
                   position |-> Zero3, dropped |-> FALSE] : size \in Sizes }

NextSize ==
    \/ DeriveDepth
    \/ \E x, y, z \in SizeCoords(calc.size) : StoreVoxel(<<x, y, z>>)

SpecSize == InitSize /\ [][NextSize]_vars

-----------------------------------------------------------------------------
(* main.rs: voxelize_mesh, with the file operations of gltf2.rs: save_gltf
   and of save_as_magica_voxel *)

\* The command lines: the extensions of args.input and args.output,
\* args.sparse, and whether the folder of the output path is already there.
DriverArgs ==
    [ input : {"gltf", "glb", "obj"}, output : {"gltf", "vox", "png"},
      sparse : BOOLEAN, folder_exists : BOOLEAN ]

\* Whether a file operation succeeds is up to the file system.
Outcomes == {"ok", "err"}

\* The `?` on a failed step: voxelize_mesh returns the error.
Fail(d) == [d EXCEPT !.step = "exit", !.result = "err"]

DriverStep(next_driver) ==
    /\ driver' = next_driver
    /\ UNCHANGED <<gather, vox, load, raster, calc>>
    /\ UNCHANGED octVars

\* InputType::from_file(&args.input)?
InferInput ==
    /\ driver.step = "start"
    /\ DriverStep(IF driver.input \in {"gltf", "glb"}
                  THEN [driver EXCEPT !.step = "input"]
                  ELSE Fail(driver))

\* OutputType::from_file(&args.output)?
InferOutput ==
    /\ driver.step = "input"
    /\ DriverStep(IF driver.output \in {"gltf", "vox"}
                  THEN [driver EXCEPT !.step = "output"]
                  ELSE Fail(driver))

\* gltf2::load_gltf(&args.input)?
LoadGltf(outcome) ==
    /\ driver.step = "output"
    /\ DriverStep(IF outcome = "ok"
                  THEN [driver EXCEPT !.step = "loaded"]
                  ELSE Fail(driver))

\* voxelize(&mesh, args.dim, VoxelizationMode::Triangles)
Voxelize ==
    /\ driver.step = "loaded"
    /\ DriverStep([driver EXCEPT !.step = "voxelized"])

\* save_as_gltf up to the call of save_gltf: the mesh of the sparse or of the
\* dense path, and the JSON held in memory.
BuildGltf ==
    /\ driver.step = "voxelized"
    /\ driver.output = "gltf"
    /\ DriverStep([driver EXCEPT !.step = IF driver.sparse THEN "sparse_mesh"
                                          ELSE "dense_mesh"])

\* std::fs::create_dir(folder)?, which fails on a folder that exists.
CreateDir(outcome) ==
    /\ driver.step \in {"sparse_mesh", "dense_mesh"}
    /\ DriverStep(IF outcome = "ok" /\ ~driver.folder_exists
                  THEN [driver EXCEPT !.step = "dir", !.created = @ \cup {"folder"}]
                  ELSE Fail(driver))

\* std::fs::write(gltf_path, gltf.dump())?
WriteGltf(outcome) ==
    /\ driver.step = "dir"
    /\ DriverStep(IF outcome = "ok"
                  THEN [driver EXCEPT !.step = "json", !.created = @ \cup {"gltf"}]
                  ELSE Fail(driver))

\* std::fs::write(bin_path, ..)? and Ok(())
WriteBin(outcome) ==
    /\ driver.step = "json"
    /\ DriverStep(IF outcome = "ok"
                  THEN [driver EXCEPT !.step = "exit", !.result = "ok",
                                      !.created = @ \cup {"model.bin"}]
                  ELSE Fail(driver))

\* save_as_magica_voxel up to std::fs::File::create(file_path)?
CreateVox(outcome) ==
    /\ driver.step = "voxelized"
    /\ driver.output = "vox"
    /\ DriverStep(IF outcome = "ok"
                  THEN [driver EXCEPT !.step = "file", !.created = @ \cup {"vox"}]
                  ELSE Fail(driver))

\* data.write_vox(&mut file)? and Ok(())
WriteVoxData(outcome) ==
    /\ driver.step = "file"
    /\ DriverStep(IF outcome = "ok"
                  THEN [driver EXCEPT !.step = "exit", !.result = "ok"]
                  ELSE Fail(driver))

InitDriver ==
    /\ InitOctree
    /\ raster = RasterIdle
    /\ calc = CalcIdle
    /\ gather = GatherStart
    /\ vox = VoxIdle
    /\ load = LoadIdle
    /\ driver \in { [DriverIdle EXCEPT !.step = "start", !.input = a.input,
                                       !.output = a.output, !.sparse = a.sparse,
                                       !.folder_exists = a.folder_exists]
                      : a \in DriverArgs }

NextDriver ==
    \/ InferInput
    \/ InferOutput
    \/ \E outcome \in Outcomes : LoadGltf(outcome)
    \/ Voxelize
    \/ BuildGltf
    \/ \E outcome \in Outcomes : CreateDir(outcome)
    \/ \E outcome \in Outcomes : WriteGltf(outcome)
    \/ \E outcome \in Outcomes : WriteBin(outcome)
    \/ \E outcome \in Outcomes : CreateVox(outcome)
    \/ \E outcome \in Outcomes : WriteVoxData(outcome)

SpecDriver == InitDriver /\ [][NextDriver]_vars

-----------------------------------------------------------------------------
(* Properties of the octree API (checked under SpecApi) *)

CallIdx == 1..Len(calls)

\* A call that reached insert: an insert call, or a store call whose position
\* lies inside the one-voxel margin.
InMargin(p) == \A k \in 1..3 : p[k] >= 1 /\ p[k] <= (2 ^ (Depth + 1)) - 2

ReachedInsert(i) ==
    \/ calls[i].op = "insert"
    \/ calls[i].op = "store" /\ InMargin(calls[i].pos)

\* The positions handed to insert so far.
InsertedCoords == { calls[i].pos : i \in { j \in CallIdx : ReachedInsert(j) } }

\* A call that wrote a leaf: insert returned Some, or store changed the data.
Succeeded(i) ==
    \/ calls[i].op = "insert" /\ calls[i].ret.some
    \/ calls[i].op = "store" /\ calls[i].changed

FirstSuccess(p) ==
    CHOOSE i \in CallIdx :
        /\ calls[i].pos = p /\ Succeeded(i)
        /\ \A j \in 1..(i - 1) : ~(calls[j].pos = p /\ Succeeded(j))

\* The positions and the colour words of a collect_nodes result.
NodePositions(L) == { L[i][1] : i \in 1..Len(L) }

\* C1: after any sequence of max-depth inserts inside the cube, collect_nodes
\* returns exactly the inserted positions (as max-depth nodes), each once.
C1_CollectExact ==
    LET L == collect_nodes(data)
    IN  /\ NodePositions(L) = { Pos(p, Depth) : p \in InsertedCoords }
        /\ Cardinality(NodePositions(L)) = Len(L)

\* Three calls reached insert, one of them a repeat: two distinct leaves come back.
C1_Witness ==
    /\ Len(calls) = 3
    /\ \A i \in CallIdx : calls[i].op = "insert"
    /\ calls[1].pos = calls[3].pos
    /\ calls[1].pos # calls[2].pos
    /\ Len(collect_nodes(data)) = 2

\* C2: first writer wins. The colour word collect_nodes reports for a leaf is
\* the colour of the first successful insert at that position, and every
\* later insert at that position returns None and leaves data unchanged.
C2_FirstWriterWins ==
    /\ LET L == collect_nodes(data)
       IN  \A i \in 1..Len(L) :
              \E j \in CallIdx :
                  /\ calls[j].pos = L[i][1].coords
                  /\ Succeeded(j)
                  /\ j = FirstSuccess(calls[j].pos)
                  /\ to_color(L[i][2]) = calls[j].color
    /\ \A j \in CallIdx :
          (ReachedInsert(j) /\ \E i \in 1..(j - 1) : calls[i].pos = calls[j].pos /\ Succeeded(i))
              => (~calls[j].ret.some /\ ~calls[j].changed)

\* A second insert at an occupied position with another colour was turned away.
C2_Witness ==
    \E i, j \in CallIdx :
        /\ i < j
        /\ calls[i].op = "insert" /\ calls[j].op = "insert"
        /\ calls[i].pos = calls[j].pos
        /\ calls[i].color # calls[j].color
        /\ calls[i].ret.some /\ ~calls[j].ret.some
        /\ LET L == collect_nodes(data)
           IN  \E k \in 1..Len(L) : /\ L[k][1].coords = calls[i].pos
                                    /\ to_color(L[k][2]) = calls[i].color

\* C3: every position inserted at max depth stays contains_exact in every
\* later state.
C3_ContainsExact ==
    \A p \in InsertedCoords : contains_exact(data, Pos(p, Depth))

\* A position inserted first is still contains_exact after two other inserts.
C3_Witness ==
    /\ Len(calls) = 3
    /\ calls[1].op = "insert"
    /\ calls[2].pos # calls[1].pos /\ calls[3].pos # calls[1].pos
    /\ calls[2].ret.some /\ calls[3].ret.some
    /\ contains_exact(data, Pos(calls[1].pos, Depth))

\* C4 as stated: for every inserted position and every depth d < Depth,
\* contains_point is true of the ancestor {pos aligned to depth d, d}.
C4_AncestorsContained ==
    \A p \in InsertedCoords : \A d \in 0..(Depth - 1) :
        contains_point(data, simplify(Pos(p, d)))

\* C4 as amended: contains_point is true of the inserted node {pos, Depth}
\* itself and false of every ancestor {pos aligned to depth d, d}, d < Depth
\* (the descent meets no FINAL slot above the leaf level and falls through).
C4_AncestorsNotContained ==
    \A p \in InsertedCoords :
        /\ contains_point(data, Pos(p, Depth))
        /\ \A d \in 0..(Depth - 1) : ~contains_point(data, simplify(Pos(p, d)))

\* An inserted position whose ancestors at depths 0 and 1 are queried.
C4_Witness ==
    /\ Len(calls) >= 2
    /\ \E i \in CallIdx :
          /\ calls[i].op = "insert" /\ calls[i].ret.some
          /\ contains_point(data, Pos(calls[i].pos, Depth))
          /\ ~contains_point(data, simplify(Pos(calls[i].pos, 0)))
          /\ ~contains_point(data, simplify(Pos(calls[i].pos, 1)))

\* C5: store is a no-op when a coordinate is < 1 or >= 2^(Depth+1) - 1, so
\* every leaf of an octree built only through store lies in
\* [1, 2^(Depth+1) - 2]^3.
C5_StoreGuard ==
    /\ \A j \in CallIdx :
          (/\ calls[j].op = "store"
           /\ \E k \in 1..3 : \/ calls[j].pos[k] < 1
                              \/ calls[j].pos[k] >= (2 ^ (Depth + 1)) - 1)
              => ~calls[j].changed
    /\ (\A j \in CallIdx : calls[j].op = "store")
          => LET L == collect_nodes(data)
             IN  \A i \in 1..Len(L) :
                     \A k \in 1..3 : /\ L[i][1].coords[k] >= 1
                                     /\ L[i][1].coords[k] <= (2 ^ (Depth + 1)) - 2

\* Built by store alone: (0,0,0) and a point with a coordinate 7 were
\* dropped, one legal point was kept.
C5_Witness ==
    /\ Len(calls) = 3
    /\ \A j \in CallIdx : calls[j].op = "store"
    /\ \E j \in CallIdx : calls[j].pos = <<0, 0, 0>> /\ ~calls[j].changed
    /\ \E j \in CallIdx : calls[j].pos = <<7, 3, 3>> /\ ~calls[j].changed
    /\ Len(collect_nodes(data)) = 1

\* C17: insert with a node whose depth exceeds the octree's depth returns
\* None and leaves the data vector as it was.
C17_BeyondDepth ==
    \A i \in CallIdx :
        calls[i].op = "insert_deep" => (~calls[i].ret.some /\ ~calls[i].changed)

\* Such an insert was made on an octree that holds the leaf at its coordinates.
C17_Witness ==
    \E i \in CallIdx :
        /\ calls[i].op = "insert_deep"
        /\ i > 1
        /\ calls[i - 1].op = "insert" /\ calls[i - 1].ret.some
        /\ calls[i - 1].pos = calls[i].pos
        /\ ~calls[i].ret.some

-----------------------------------------------------------------------------
(* Properties of fill_space (checked under SpecFill) *)

LoopEnded == phase \in {"mesh", "emit", "done"}

MeshBuilt == phase \in {"emit", "done"}

\* The voxel across the face a MeshNode stands for.
AcrossFace(node) ==
    [node.cords EXCEPT ![node.dim + 1] = @ + (IF node.positive THEN 1 ELSE -1)]

InCube(v) == \A k \in 1..3 : v[k] \in Cube

MeshNodes == { mesh[i][1] : i \in 1..Len(mesh) }

\* C6: exterior completeness.  When the frontier loop has ended, every
\* filled leaf L and every axis neighbour N of L inside the cube that is
\* unfilled and 6-connected to (0,0,0) through unfilled voxels has
\* E.contains_point(N), and the face of L toward N is in the face list.
C6_ExteriorComplete ==
    /\ LoopEnded =>
          \A L \in LeafCoords(data) : \A N \in Neighbours(L) :
              N \in ext => contains_point(empty, Pos(N, Depth))
    /\ MeshBuilt =>
          \A L \in LeafCoords(data) : \A i \in 0..5 :
              LET node == MeshNode(L, i \div 2, (i % 2) = 0, Depth)
              IN  (InCube(AcrossFace(node)) /\ AcrossFace(node) \in ext)
                      => node \in MeshNodes

\* C7: exterior soundness.  In every state of the frontier expansion each
\* voxel covered by a FINAL slot of E is unfilled and 6-connected to (0,0,0)
\* through unfilled voxels; no emitted face looks at a voxel outside that set.
C7_ExteriorSound ==
    /\ phase # "build" =>
          LET covered == CoveredVoxels(empty)
          IN  /\ covered \subseteq ext
              /\ covered \cap LeafCoords(data) = {}
    /\ \A i \in 1..Len(mesh) : AcrossFace(mesh[i][1]) \in ext

\* The run has ended on an octree that encloses the unfilled voxel (3,4,4),
\* faces were emitted, and none of the six leaves around it shows a face to it.
C7_Witness ==
    /\ phase = "done"
    /\ <<3, 4, 4>> \notin ext
    /\ <<3, 4, 4>> \notin LeafCoords(data)
    /\ Neighbours(<<3, 4, 4>>) \subseteq LeafCoords(data)
    /\ Len(mesh) > 0
    /\ ~contains_point(empty, Pos(<<3, 4, 4>>, Depth))

\* C8: every face of the sparse path is one of the six faces per leaf of the
\* dense path, and the voxel across it is outside the cube or covered by a
\* FINAL slot of E.
C8_SparseSubsetDense ==
    MeshBuilt =>
        LET dense == DenseNodes(data)
            covered == CoveredVoxels(empty)
        IN  \A i \in 1..Len(mesh) :
                /\ mesh[i][1] \in dense
                /\ \/ ~InCube(AcrossFace(mesh[i][1]))
                   \/ AcrossFace(mesh[i][1]) \in covered

\* Faces were emitted, and fewer than six per leaf.
C8_Witness ==
    /\ phase = "done"
    /\ Len(mesh) > 0
    /\ Len(mesh) < 6 * Cardinality(LeafCoords(data))
    /\ Cardinality(LeafCoords(data)) >= 2

\* C9: a second run of fill_space on the same octree returns the face list
\* (and the vertex list) of the first, whatever the iteration orders.
C9_SameFaceLists ==
    (run = 2 /\ phase = "done") => (mesh = firstMesh)

\* C10: for every emitted face the six output vertices are the mapped
\* [base, corner1, opposite, base, corner2, opposite] of to_vertices: two
\* distinct triangles, corner1 # corner2 both in the output.
C10_TwoTriangles ==
    phase = "done" =>
        \A i \in 1..Len(mesh) :
            LET v == to_vertices(mesh[i][1], Depth)
            IN  /\ v[2] # v[5]
                /\ \A k \in 1..6 :
                      triangles[6 * (i - 1) + k] = mapping(v[k], Size - 1, mesh[i][2])

\* The FINAL bits set in the headers of E2 that are clear in E, as
\* (word, slot) pairs; E2 is E after some steps, which only appends words.
NewFinalBits(E, E2) ==
    LET changed == { k \in 1..Len(E2) : k > Len(E) \/ E2[k] # E[k] }
    IN  { ki \in changed \X (0..7) :
            /\ is_header(E2[ki[1]])
            /\ get_final(E2[ki[1]], ki[2])
            /\ (ki[1] > Len(E) \/ ~get_final(E[ki[1]], ki[2])) }

\* C19: the frontier loop of fill_space ends, for the octree with no leaves
\* too: every node a step adds to `next` comes with a FINAL bit of E that was
\* clear before the step, and a run in the loop reaches the end of the loop.
C19_LoopTerminates ==
    /\ [][(phase = "frontier" /\ phase' = "frontier")
            => Cardinality(next' \ next) <= Cardinality(NewFinalBits(empty, empty'))]_vars
    /\ (phase = "frontier") ~> (phase = "mesh")

\* The loop has ended on an octree with leaves, after more than one pass.
C19_Witness ==
    /\ phase = "mesh"
    /\ Len(calls) >= 2
    /\ Cardinality(NewFinalBits(<< >>, empty)) >= 3

\* C20: every OctreePos in the frontier sets `current` and `next` is aligned
\* to its node size: each coordinate is a multiple of 2^(maxDepth - depth).
C20_FrontierAligned ==
    \A p \in current \cup next : is_simple(p)

-----------------------------------------------------------------------------
(* Properties of the two trees (checked under SpecTrees) *)

\* The chunk headers of the filled octree: every chunk has nine words.
FilledHeaders(d) == { d[k] : k \in { j \in 1..Len(d) : (j - 1) % 9 = 0 } }

\* The chunk headers of E, whose chunks have nine words or one: the words
\* that carry the tag (a slot of E holds an offset or UNINIT_SLOT).
EmptyHeaders(E) == { E[k] : k \in { j \in 1..Len(E) : is_header(E[j]) } }

ExistsCoversFinal(header) ==
    \A i \in 0..7 : get_final(header, i) => get_exists(header, i)

\* C21: in every state of the filled octree and of E, every chunk header
\* has EXISTS set wherever FINAL is set.
C21_ExistsCoversFinal ==
    /\ \A header \in FilledHeaders(data) : ExistsCoversFinal(header)
    /\ \A header \in EmptyHeaders(empty) : ExistsCoversFinal(header)

\* fill_space has ended its loop with FINAL bits in both trees.
C21_Witness ==
    /\ phase = "mesh"
    /\ \E header \in FilledHeaders(data) : \E i \in 0..7 : get_final(header, i)
    /\ Cardinality({ header \in EmptyHeaders(empty) :
                        \E i \in 0..7 : get_final(header, i) }) >= 2

\* The offsets of the chunks of the filled octree.
ChunkOffsets(d) == { o \in 0..(Len(d) - 1) : o % 9 = 0 }

\* Root chunk at offset 0, nine words per chunk, and every slot that is
\* EXISTS and not FINAL holds the offset of a chunk whose header is tagged.
WellFormed(d) ==
    /\ Len(d) >= 9
    /\ is_header(d[1])
    /\ Len(d) % 9 = 0
    /\ \A o \in ChunkOffsets(d) : \A i \in 0..7 :
          (get_exists(d[o + 1], i) /\ ~get_final(d[o + 1], i))
              => LET p == d[o + 1 + i + 1]
                 IN  /\ p % 9 = 0
                     /\ p < Len(d)
                     /\ is_header(d[p + 1])

\* C22: after any sequence of inserts the filled octree is well formed, and
\* its data vector never gets shorter.
C22_WellFormed ==
    /\ [](WellFormed(data))
    /\ [][Len(data') >= Len(data)]_vars

\* Inserts at two different depths have succeeded and the octree has at
\* least three chunks, so some slot holds a chunk offset.
C22_Witness ==
    /\ Len(data) >= 27
    /\ \E i, j \in 1..Len(calls) :
          /\ calls[i].op = "insert_at" /\ calls[j].op = "insert_at"
          /\ calls[i].ret.some /\ calls[j].ret.some
          /\ calls[i].depth # calls[j].depth
    /\ \E o \in ChunkOffsets(data) : \E k \in 0..7 :
          get_exists(data[o + 1], k) /\ ~get_final(data[o + 1], k)

-----------------------------------------------------------------------------
(* Properties of fill_space on the seed runs (checked under SpecSeed) *)

\* E follows the filled octree F: below the chunk pair (fo, eo), every slot
\* of E that is EXISTS and not FINAL stands where F has such a slot too
\* (never where F has a colour), and both slots hold offsets of nine-word
\* chunks inside their vectors.
RECURSIVE Mirrors(_, _, _, _)
Mirrors(F, E, fo, eo) ==
    \A i \in 0..7 :
        (get_exists(E[eo + 1], i) /\ ~get_final(E[eo + 1], i)) =>
            /\ get_exists(F[fo + 1], i)
            /\ ~get_final(F[fo + 1], i)
            /\ LET fp == F[fo + 1 + i + 1]
                   ep == E[eo + 1 + i + 1]
               IN  /\ fp % 9 = 0 /\ fp + 9 <= Len(F)
                   /\ ep % 9 = 0 /\ ep + 9 <= Len(E)
                   /\ is_header(E[ep + 1])
                   /\ Mirrors(F, E, fp, ep)

\* C29: fill_space does not panic on an octree built by store calls: the
\* seed descent ends on an absent octant, E only ever descends where the
\* filled octree has a chunk (never through a colour word) with every
\* offset inside its vector, and E has no single-word chunk.
C29_FillNeverPanics ==
    /\ phase # "panic"
    /\ phase \in {"frontier", "mesh", "emit", "done"} =>
          /\ Len(empty) >= 9
          /\ Len(empty) % 9 = 0
          /\ \A k \in 1..Len(empty) : is_header(empty[k]) => (k - 1) % 9 = 0
          /\ Mirrors(data, empty, 0, 0)

\* The loop has ended on an octree for which the store of the seed voxel
\* (0,0,0) was dropped, voxel (1,1,1) next to it is filled, and E has
\* descended to the leaf level.
C29_Witness ==
    /\ phase = "mesh"
    /\ \E j \in 1..Len(calls) : calls[j].pos = <<0, 0, 0>> /\ ~calls[j].changed
    /\ \E j \in 1..Len(calls) : calls[j].pos = <<1, 1, 1>> /\ calls[j].changed
    /\ Len(empty) >= 27
    /\ contains_exact(empty, Pos(<<0, 0, 0>>, Depth))

-----------------------------------------------------------------------------
(* Properties of mod magica (checked under SpecMagica) *)

\* C11: encode(decode(i)) = i for every palette index i the loop of _gather
\* has passed, and the loop never panics; it passes all of 0..=255.
C11_RoundTrip ==
    /\ gather.state # "panic"
    /\ \A i \in 0..(gather.counter - 1) : encode(decode(i)) = i
    /\ gather.state = "ok" =>
          /\ gather.counter = 255
          /\ \A i \in 0..255 : encode(decode(i)) = i

\* _gather has ended after the index 255, whose colour is (224, 224, 192).
C11_Witness ==
    /\ gather.state = "ok"
    /\ gather.counter = 255
    /\ decode(255) = << 224, 224, 192 >>

-----------------------------------------------------------------------------
(* Properties of save_as_magica_voxel (checked under SpecVox) *)

ModelsBuilt ==
    /\ vox.step \in {"run", "saved", "error"}
    /\ vox.n = Len(vox.nodes)
    /\ vox.index = U8_MAX
    /\ vox.left = {}

AllVoxels ==
    UNION { { vox.models[m].voxels[j] : j \in 1..Len(vox.models[m].voxels) } :
              m \in 1..Len(vox.models) }

\* C12: the palette of the written file has exactly 256 entries, entry i is
\* decode(i) for every i in 0..=255, and every colour index of a voxel is the
\* index of an entry of the palette.
C12_Palette256 ==
    vox.step = "saved" =>
        /\ Len(vox.palette) = 256
        /\ \A i \in 0..255 :
              LET entry == vox.palette[i + 1]
              IN  << entry.r, entry.g, entry.b >> = decode(i)
        /\ \A v \in AllVoxels : v.i + 1 \in DOMAIN vox.palette

\* The "_t" of the Transform node whose Shape child shows model m (from 1).
ModelTranslation(m) ==
    LET transform ==
            CHOOSE k \in 1..Len(vox.scenes) :
                /\ vox.scenes[k].kind = "Transform"
                /\ vox.scenes[k].t # << >>
                /\ vox.scenes[vox.scenes[k].child + 1].kind = "Shape"
                /\ vox.scenes[vox.scenes[k].child + 1].model_id = m - 1
    IN  vox.scenes[transform].t

\* Where leaf `coords` shows up: the (model, voxel) places whose translation
\* plus local coordinates is (x, z, y).
Places(coords) ==
    { mj \in { << m, j >> : m \in 1..Len(vox.models), j \in 1..Len(vox.nodes) } :
        /\ mj[2] <= Len(vox.models[mj[1]].voxels)
        /\ LET v == vox.models[mj[1]].voxels[mj[2]]
               t == ModelTranslation(mj[1])
           IN  << t[1] + v.x, t[2] + v.y, t[3] + v.z >>
                   = << coords[1], coords[3], coords[2] >> }

RECURSIVE ModelSizes(_)
ModelSizes(m) ==
    IF m = 0 THEN 0 ELSE Len(vox.models[m].voxels) + ModelSizes(m - 1)

\* C18: every leaf (x, y, z) is in exactly one model, the one of chunk
\* (x/256, y/256, z/256), whose translation is (cx*256, cz*256, cy*256); the
\* voxel's local coordinates are (x%256, z%256, y%256), translation plus
\* local is (x, z, y), and the models hold as many voxels as there are leaves.
C18_ChunkedPlacement ==
    ModelsBuilt =>
        /\ ModelSizes(Len(vox.models)) = Len(vox.nodes)
        /\ Len(vox.models) = Cardinality(DOMAIN vox.chunks)
        /\ \A k \in 1..Len(vox.nodes) :
              LET c == vox.nodes[k][1].coords
                  chunk == << c[1] \div 256, c[2] \div 256, c[3] \div 256 >>
              IN  /\ Cardinality(Places(c)) = 1
                  /\ \A mj \in Places(c) :
                        LET v == vox.models[mj[1]].voxels[mj[2]]
                        IN  /\ ModelTranslation(mj[1])
                                 = << chunk[1] * 256, chunk[3] * 256, chunk[2] * 256 >>
                            /\ << v.x, v.y, v.z >> = << c[1] % 256, c[3] % 256, c[2] % 256 >>

\* A file with two models was written, one of them for the chunk (0, 1, 0) of
\* leaf (2, 300, 255), translated along the third output axis.
C18_Witness ==
    /\ vox.step = "saved"
    /\ Len(vox.models) = 2
    /\ \E m \in 1..2 :
          /\ ModelTranslation(m) = << 0, 0, 256 >>
          /\ vox.models[m].voxels[1].y = 255

-----------------------------------------------------------------------------
(* Properties of load_gltf and voxelize (checked under SpecLoad) *)

\* The primitive triangle `tri` (from 0) of the Mesh comes from.
PrimitiveOf(tri) == load.doc.prims[tri + 1]

\* C13: a triangle of a primitive that has no material is voxelized with the
\* default white (255, 255, 255), whatever materials the file defines.
C13_DefaultWhite ==
    \A k \in 1..Len(load.stored) :
        ~PrimitiveOf(load.stored[k].tri).material.some
            => load.stored[k].color = << 255, 255, 255 >>

\* C14: in the Mesh returned by load_gltf every material_idx of
\* triangle_extras is an index into materials: material_idx < materials.len().
C14_MaterialIdxValid ==
    load.step \in {"voxelize", "done", "panic"} =>
        \A t \in 1..Len(load.triangle_extras) : \A v \in 1..3 :
            load.triangle_extras[t][v].material_idx < Len(load.materials)

\* C15: a triangle whose material is an image and whose vertices were built
\* with no UV ends the run (uv() reports absence, unwrap panics) and no voxel
\* is stored for it.
C15_MissingUvAborts ==
    /\ \A t \in 1..Len(load.triangle_extras) : \A v \in 1..3 :
          ~PrimitiveOf(t - 1).uvs => ~uv(load.triangle_extras[t][v]).some
    /\ \A k \in 1..Len(load.stored) :
          LET tri == load.stored[k].tri
              material == MaterialOf(load.materials,
                                     load.triangle_extras[tri + 1][1].material_idx)
          IN  ~(material.kind = "Image" /\ ~PrimitiveOf(tri).uvs)

-----------------------------------------------------------------------------
(* Properties of voxelize_triangle and voxelize_line (checked under
   SpecRaster) *)

EdgeLength2(k) ==
    distance_squared(raster.tri_pos[LINES[k][1] + 1], raster.tri_pos[LINES[k][2] + 1])

LongestLength2 ==
    CHOOSE l \in { EdgeLength2(k) : k \in 1..3 } : \A k \in 1..3 : l >= EdgeLength2(k)

\* C23: the edge chosen as (a, b) is the first of LINES among the edges of
\* greatest length, and c is the remaining vertex.
C23_FirstLongest ==
    raster.step \in {"fan", "line", "done"} =>
        LET first == CHOOSE k \in 1..3 :
                        /\ EdgeLength2(k) = LongestLength2
                        /\ \A j \in 1..(k - 1) : EdgeLength2(j) < LongestLength2
        IN  /\ << raster.a, raster.b >> = LINES[first]
            /\ raster.c = 3 - raster.a - raster.b

\* C24: when voxelize_triangle has returned for a triangle whose longest
\* edge is shorter than one voxel, the voxels of its three vertices have
\* been passed to store.
C24_EndpointsStored ==
    (raster.step = "done" /\ LongestLength2 < TriUnit * TriUnit) =>
        \A k \in 1..3 : FloorDiv(raster.tri_pos[k], TriUnit) \in raster.stored

\* C25: the loop of voxelize_line ends.  Every step moves one coordinate of
\* map_pos by its sign step and nothing moves it back, so the loop can end
\* only as long as `end` is not behind map_pos on any axis.
C25_LineTerminates ==
    raster.step = "line" =>
        \A k \in 1..3 :
            Signum(raster.p2[k] - raster.p1[k]) * (raster.end[k] - raster.map_pos[k]) >= 0

-----------------------------------------------------------------------------
(* Properties of MeshNode::to_vertices (checked under SpecFaces) *)

Returned == calc.fn = "to_vertices" /\ calc.returned

\* The unit vector of axis k (0, 1, 2) scaled by s.
Along(k, s) == [ j \in 1..3 |-> IF j = k + 1 THEN s ELSE 0 ]

\* C26: to_vertices returns [base, corner1, opposite, base, corner2,
\* opposite]: base is cords moved by size along dim iff positive, corner1
\* and corner2 are base moved by size along the two axes other than dim,
\* opposite = corner1 + corner2 - base, and the four corners are distinct
\* points of the plane of the face.
C26_FaceCorners ==
    Returned =>
        LET node == calc.node
            size == 2 ^ (Depth - node.depth)
            base == IF node.positive THEN VAdd(node.cords, Along(node.dim, size))
                    ELSE node.cords
            corner1 == calc.ret[2]
            opposite == calc.ret[3]
            corner2 == calc.ret[5]
        IN  /\ Len(calc.ret) = 6
            /\ calc.ret[1] = base /\ calc.ret[4] = base /\ calc.ret[6] = opposite
            /\ \E j, k \in (0..2) \ { node.dim } :
                  /\ j # k
                  /\ corner1 = VAdd(base, Along(j, size))
                  /\ corner2 = VAdd(base, Along(k, size))
            /\ opposite = VSub(VAdd(corner1, corner2), base)
            /\ \A p \in { base, corner1, corner2, opposite } :
                  p[node.dim + 1] = base[node.dim + 1]
            /\ Cardinality({ base, corner1, corner2, opposite }) = 4

\* to_vertices has returned for a face on the positive z side of a node
\* larger than a voxel.
C26_Witness ==
    /\ Returned
    /\ calc.node.positive /\ calc.node.dim = 2 /\ calc.node.depth < Depth
    /\ calc.ret[3] = VAdd(calc.node.cords, << 2 ^ (Depth - calc.node.depth),
                                               2 ^ (Depth - calc.node.depth),
                                               2 ^ (Depth - calc.node.depth) >>)

Cross(u, v) ==
    << u[2] * v[3] - u[3] * v[2], u[3] * v[1] - u[1] * v[3], u[1] * v[2] - u[2] * v[1] >>

\* C27: the two triangles [base, corner1, opposite] and [base, corner2,
\* opposite] have the same orientation: their normals
\* (corner1 - base) x (opposite - base) and (corner2 - base) x (opposite - base)
\* point the same way along the axis of the face.
C27_CoherentWinding ==
    Returned =>
        LET base == calc.ret[1]
            n1 == Cross(VSub(calc.ret[2], base), VSub(calc.ret[3], base))
            n2 == Cross(VSub(calc.ret[5], calc.ret[4]), VSub(calc.ret[6], calc.ret[4]))
        IN  n1[calc.node.dim + 1] * n2[calc.node.dim + 1] > 0

-----------------------------------------------------------------------------
(* Properties of the depth derived by voxelize (checked under SpecSize) *)

\* C28: the depth derived from size satisfies size <= 2^(depth+1) - 2, and
\* no voxel with coordinates in [1, size] is dropped by the guard of store.
C28_DepthFitsSize ==
    (calc.fn = "voxelize" /\ calc.depth >= 0) =>
        /\ calc.size <= 2 ^ (calc.depth + 1) - 2
        /\ calc.stored => ~calc.dropped

\* The default resolution 1022 fills its octree to the last voxel the
\* guard lets through, and a voxel at that coordinate has been stored.
C28_Witness ==
    /\ calc.fn = "voxelize"
    /\ calc.size = 2 ^ (calc.depth + 1) - 2
    /\ calc.size = 1022
    /\ calc.stored /\ ~calc.dropped
    /\ MaxElement(calc.position) = calc.size

-----------------------------------------------------------------------------
(* Properties of voxelize_mesh (checked under SpecDriver) *)

\* C16: when voxelize_mesh has returned an error the run has created
\* nothing: no output folder, no .gltf, no model.bin, no .vox file.
C16_NoPartialOutput ==
    driver.result = "err" => driver.created = {}

====
